---- MODULE Spec2Model ----
(***************************************************************************)
(* A model of woody-mcp's parametric template engine                       *)
(* (src/sketchup_mcp/templates), of the build_project tool and of the      *)
(* socket connection it hands the build script to.                         *)
(*                                                                         *)
(* Lengths are exact rationals: every length is kept in units of 1/Scale   *)
(* millimetre, so the divisions the templates make (by 2, 3, count+1, ...) *)
(* are exact.  Text the code builds by interpolation (error messages, the  *)
(* Ruby script) is kept structurally: which message, with which values;    *)
(* which primitive, with which coordinates.                                *)
(***************************************************************************)
EXTENDS Integers, Sequences, FiniteSets, TLC

VARIABLES
    pc,        \* position of the template-layer caller
    req,       \* the caller's parameters
    self,      \* the Template instance (its fields), once constructed
    results,   \* the TemplateResults generate() has returned so far, in order
    raised,    \* the ValueError the constructor raised, if it did
    lumber,    \* the stock descriptor handed to _parse_lumber
    parsed,    \* what _parse_lumber returned or raised
    bp_pc,     \* position of the build_project call in progress
    bp_req,    \* build_project's arguments
    bp_result, \* the TemplateResult generate() returned to build_project
    bp_template, \* the Template instance build_project constructed
    sock,      \* SketchupConnection.sock: "none" or "open"
    attempt,   \* send_command's loop variable
    sent,      \* sendall calls made for the request of the call in progress
    handed,    \* sendall calls that went through: the script is with the Executor
    calls,     \* build_project calls started so far
    outcome,   \* how the last build_project call ended: returned or raised
    p_req,     \* the parameters of each of the independent instances
    p_inst,    \* the instance store: the fields of each Template instance
    p_pc,      \* position of the generate() call on each instance
    p_local,   \* the local variables of the generate() call on each instance
    p_out,     \* the TemplateResult each generate() call returned
    c_pc,      \* position of the send_command call on the shared connection
    c_id,      \* the request of the send_command call: the calls so far
    c_attempt, \* send_command's loop variable
    c_sent,    \* sendall calls made for the request
    c_sock,    \* SketchupConnection.sock: NoSock or the socket it holds
    c_open,    \* the sockets created and not closed
    c_wire,    \* per socket, the requests delivered whose reply is unread
    c_outcome  \* how the last send_command call ended

tplVars == <<pc, req, self, results, raised>>
parseVars == <<lumber, parsed>>
buildVars ==
    <<bp_pc, bp_req, bp_result, bp_template, sock, attempt, sent, handed, calls, outcome>>
parVars == <<p_req, p_inst, p_pc, p_local, p_out>>
connVars == <<c_pc, c_id, c_attempt, c_sent, c_sock, c_open, c_wire, c_outcome>>
vars == <<tplVars, parseVars, buildVars, parVars, connVars>>

---------------------------------------------------------------------------
(* Units and small helpers *)

\* lengths are held in 1/Scale mm (60 = lcm of the divisors 2..6 the code uses)
Scale == 2 * 2 * 3 * 5

\* a length of v mm
mm(v) == v * Scale

\* the 0.5 mm marker_thickness literal
HalfMm == Scale \div 2

Max(a, b) == IF a >= b THEN a ELSE b
Min(a, b) == IF a <= b THEN a ELSE b

\* Python's true division, exact on the values the model draws
Div(a, n) == a \div n

\* an absent optional argument is <<>>, a given one <<v>>
None == <<>>
Some(v) == <<v>>
IsNone(o) == o = <<>>

\* kwargs.get(key, default) on the options mapping
Opt(options, key, default) ==
    IF key \in DOMAIN options THEN options[key] ELSE default

RECURSIVE SumSeq(_)
SumSeq(s) == IF s = <<>> THEN 0 ELSE Head(s) + SumSeq(Tail(s))

RECURSIVE ISqrtFrom(_, _, _)
ISqrtFrom(n, lo, hi) ==
    IF lo >= hi THEN lo
    ELSE LET mid == (lo + hi + 1) \div 2
         IN  IF mid * mid <= n THEN ISqrtFrom(n, mid, hi)
             ELSE ISqrtFrom(n, lo, mid - 1)

\* floor of the square root
ISqrt(n) == ISqrtFrom(n, 0, 46340)

---------------------------------------------------------------------------
(* Stock descriptors: strings are sequences of one-character strings *)

Digits == {"0", "1", "2", "3", "4", "5", "6", "7", "8", "9"}

DigitVal(c) ==
    CASE c = "0" -> 0 [] c = "1" -> 1 [] c = "2" -> 2 [] c = "3" -> 3
      [] c = "4" -> 4 [] c = "5" -> 5 [] c = "6" -> 6 [] c = "7" -> 7
      [] c = "8" -> 8 [] c = "9" -> 9

\* the letters str.lower() changes, and what it changes them to
UpperCase == <<"A", "B", "C", "D", "E", "F", "G", "H", "I", "J", "K", "L", "M", "N",
              "O", "P", "Q", "R", "S", "T", "U", "V", "W", "X", "Y", "Z">>
LowerCase == <<"a", "b", "c", "d", "e", "f", "g", "h", "i", "j", "k", "l", "m", "n",
              "o", "p", "q", "r", "s", "t", "u", "v", "w", "x", "y", "z">>

\* str.lower()
Lower(s) ==
    [i \in 1..Len(s) |->
        IF \E k \in 1..Len(UpperCase) : UpperCase[k] = s[i]
        THEN LowerCase[CHOOSE k \in 1..Len(UpperCase) : UpperCase[k] = s[i]]
        ELSE s[i]]

\* str.replace("x", " ")
ReplaceX(s) == [i \in 1..Len(s) |-> IF s[i] = "x" THEN " " ELSE s[i]]

\* str.split(): the maximal runs of non-whitespace characters
RECURSIVE SplitFrom(_, _, _)
SplitFrom(s, i, cur) ==
    IF i > Len(s)
    THEN IF cur = <<>> THEN <<>> ELSE <<cur>>
    ELSE IF s[i] = " "
         THEN (IF cur = <<>> THEN <<>> ELSE <<cur>>) \o SplitFrom(s, i + 1, <<>>)
         ELSE SplitFrom(s, i + 1, Append(cur, s[i]))

Split(s) == SplitFrom(s, 1, <<>>)

RECURSIVE DigitsVal(_, _)
DigitsVal(p, acc) ==
    IF p = <<>> THEN acc ELSE DigitsVal(Tail(p), 10 * acc + DigitVal(Head(p)))

AllDigits(p) == p # <<>> /\ \A i \in 1..Len(p) : p[i] \in Digits

\* whether float(p) succeeds: an optional sign, then digits
FloatOk(p) ==
    \/ AllDigits(p)
    \/ (p # <<>> /\ Head(p) = "-" /\ AllDigits(Tail(p)))

\* float(p), in mm
FloatVal(p) ==
    IF Head(p) = "-" THEN 0 - DigitsVal(Tail(p), 0) ELSE DigitsVal(p, 0)

\* the three ValueErrors _parse_lumber lets out
InvalidFormatError(l) ==
    [ok |-> FALSE, text |-> "Invalid lumber format", input |-> Some(l),
     expected |-> "WIDTHxTHICKNESS", args |-> <<>>]

NotFloatError(p) ==
    [ok |-> FALSE, text |-> "could not convert string to float", input |-> None,
     expected |-> "", args |-> <<p>>]

NotPositiveError(w, t) ==
    [ok |-> FALSE, text |-> "Lumber dimensions must be positive", input |-> None,
     expected |-> "", args |-> <<w, t>>]

\* BaseTemplate._parse_lumber: (width, thickness) in mm, or the ValueError raised
_parse_lumber(l) ==
    LET parts == Split(ReplaceX(Lower(l)))
    IN  IF Len(parts) # 2 THEN InvalidFormatError(l)
        ELSE IF ~FloatOk(parts[1]) THEN NotFloatError(parts[1])
        ELSE IF ~FloatOk(parts[2]) THEN NotFloatError(parts[2])
        ELSE LET width == FloatVal(parts[1])
                 thickness == FloatVal(parts[2])
             IN  IF width <= 0 \/ thickness <= 0
                 THEN NotPositiveError(width, thickness)
                 ELSE [ok |-> TRUE, width |-> width, thickness |-> thickness]

---------------------------------------------------------------------------
(* base.py: LumberPiece, TemplateResult, JointMarker, BaseTemplate *)

\* record union, the right operand's fields winning
Merge(r1, r2) ==
    [k \in (DOMAIN r1) \cup (DOMAIN r2) |-> IF k \in DOMAIN r2 THEN r2[k] ELSE r1[k]]

\* a piece listed once per board: the variant the grouping is checked against
LumberPieceUngrouped(name, width, height, length, quantity, material) ==
    [name |-> name, width |-> width, height |-> height, length |-> length,
     quantity |-> 1, material |-> material]

\* a LumberPiece (notes, free text, are left out)
LumberPiece(name, width, height, length, quantity, material) ==
    [name |-> name, width |-> width, height |-> height, length |-> length,
     quantity |-> quantity, material |-> material]

\* an error message: its fixed text and the values interpolated into it
Message(text, args) == [text |-> text, args |-> args]

\* the empty string
EmptyStr == Message("", <<>>)

\* a failed result that drops its message: the variant the one-sidedness of
\* results is checked against
FailureWithoutMessage(error) ==
    [success |-> FALSE, ruby_code |-> <<>>, cut_list |-> <<>>, error |-> EmptyStr]

\* TemplateResult(success=False, error=...): ruby_code "" and cut_list [] by default
Failure(error) ==
    [success |-> FALSE, ruby_code |-> <<>>, cut_list |-> <<>>, error |-> error]

\* TemplateResult(success=True, ruby_code=..., cut_list=...): error "" by default
Success(ruby_code, cut_list) ==
    [success |-> TRUE, ruby_code |-> ruby_code, cut_list |-> cut_list,
     error |-> EmptyStr]

\* one primitive of the build script
Primitive(op, name, idx, width, height, depth, x, y, z) ==
    [op |-> op, name |-> <<name, idx>>, x |-> x, y |-> y, z |-> z,
     width |-> width, height |-> height, depth |-> depth]

\* BaseTemplate._create_board_ruby: a face from (x, y) to (x + width, y + depth)
\* at height z, pushed up by height
_create_board_ruby(name, idx, width, height, depth, x, y, z) ==
    Primitive("board", name, idx, width, height, depth, x, y, z)

\* JOINT_COLORS.get(joint_type, JOINT_COLORS["butt"])
JOINT_COLORS(joint_type) ==
    CASE joint_type = "dado" -> "#E53935"
      [] joint_type = "rabbet" -> "#1E88E5"
      [] joint_type = "finger_joint" -> "#FB8C00"
      [] joint_type = "miter" -> "#8E24AA"
      [] joint_type = "mortise_tenon" -> "#43A047"
      [] joint_type = "bracket" -> "#FDD835"
      [] OTHER -> "#757575"

\* a JointMarker
JointMarker(name, idx, joint_type, x, y, z, width, height, depth) ==
    [name |-> <<name, idx>>, joint_type |-> joint_type, x |-> x, y |-> y, z |-> z,
     width |-> width, height |-> height, depth |-> depth]

\* BaseTemplate._create_joint_marker_ruby
_create_joint_marker_ruby(m) ==
    [op |-> "marker", name |-> m.name, x |-> m.x, y |-> m.y, z |-> m.z,
     width |-> m.width, height |-> m.height, depth |-> m.depth,
     color |-> JOINT_COLORS(m.joint_type)]

\* a marker pass that ignores the display flag: the variant the suppression of
\* markers is checked against
_generate_markers_ruby_always(s, markers) ==
    IF markers = <<>> THEN <<>>
    ELSE [i \in 1..Len(markers) |-> _create_joint_marker_ruby(markers[i])]

\* BaseTemplate._generate_markers_ruby, given what _get_joint_markers returned
_generate_markers_ruby(s, markers) ==
    IF ~s.show_joints THEN <<>>
    ELSE IF markers = <<>> THEN <<>>
    ELSE [i \in 1..Len(markers) |-> _create_joint_marker_ruby(markers[i])]

\* BaseTemplate._wrap_in_operation: start_operation, the body, commit_operation
_wrap_in_operation(ruby_code, operation_name) ==
    <<Primitive("start_operation", operation_name, 0, 0, 0, 0, 0, 0, 0)>>
    \o ruby_code
    \o <<Primitive("commit_operation", operation_name, 0, 0, 0, 0, 0, 0, 0)>>

\* a constructor that dresses the stock to the region's standard: the variant
\* the independence from region is checked against
BaseInitRegional(template_name, default_joinery, width, height, depth, lumber_, joinery, material, region, kwargs) ==
    LET p == _parse_lumber(lumber_)
        dressing == IF region = "north_america" THEN mm(1) ELSE 0
    IN  IF ~p.ok THEN [ok |-> FALSE, error |-> p]
        ELSE [ok |-> TRUE,
              self |-> [template_name |-> template_name,
                        width |-> mm(width), height |-> mm(height),
                        depth |-> mm(depth), lumber |-> lumber_,
                        joinery |-> IF IsNone(joinery) \/ joinery = Some("")
                                    THEN default_joinery ELSE joinery[1],
                        material |-> material, region |-> region,
                        show_joints |-> Opt(kwargs, "show_joints", TRUE),
                        lumber_width |-> mm(p.width) + dressing,
                        lumber_thickness |-> mm(p.thickness) + dressing]]

\* BaseTemplate.__init__: the shared fields, or the ValueError of _parse_lumber
BaseInit(template_name, default_joinery, width, height, depth, lumber_, joinery, material, region, kwargs) ==
    LET p == _parse_lumber(lumber_)
    IN  IF ~p.ok THEN [ok |-> FALSE, error |-> p]
        ELSE [ok |-> TRUE,
              self |-> [template_name |-> template_name,
                        width |-> mm(width), height |-> mm(height),
                        depth |-> mm(depth), lumber |-> lumber_,
                        joinery |-> IF IsNone(joinery) \/ joinery = Some("") THEN default_joinery
                                    ELSE joinery[1],
                        material |-> material, region |-> region,
                        show_joints |-> Opt(kwargs, "show_joints", TRUE),
                        lumber_width |-> mm(p.width),
                        lumber_thickness |-> mm(p.thickness)]]

\* an optional constructor argument, with the signature's default
Arg(o, default) == IF IsNone(o) THEN default ELSE o[1]

\* the boards and the markers of a build script
Boards(ruby_code) == SelectSeq(ruby_code, LAMBDA p : p.op = "board")
Markers(ruby_code) == SelectSeq(ruby_code, LAMBDA p : p.op = "marker")

---------------------------------------------------------------------------
(* string literals of the stock descriptors the constructors default to *)

S_90x19 == <<"9", "0", "x", "1", "9">>
S_90x12 == <<"9", "0", "x", "1", "2">>
S_90x45 == <<"9", "0", "x", "4", "5">>
S_90x25 == <<"9", "0", "x", "2", "5">>
S_50x20 == <<"5", "0", "x", "2", "0">>

---------------------------------------------------------------------------
(* templates/bookshelf.py *)

\* BookshelfTemplate.__init__
BookshelfTemplate(r) ==
    LET o == r.options
        b == BaseInit("bookshelf", "dado", Arg(r.width, 600), Arg(r.height, 1000),
                      Arg(r.depth, 300), Arg(r.lumber, S_90x19), r.joinery,
                      Arg(r.material, "pine"), r.region, o)
    IN  IF ~b.ok THEN b
        ELSE [ok |-> TRUE,
              self |-> Merge(b.self,
                  [shelves |-> Max(1, Opt(o, "shelves", 3)),
                   _shelf_positions |-> <<>>])]

\* markers for the shelves alone, the top and bottom positions skipped: the
\* variant the marker count of the shelving unit is checked against
bookshelf_get_joint_markers_shelves_only(s) ==
    IF Len(s._shelf_positions) <= 2 THEN <<>>
    ELSE [k \in 1..(2 * (Len(s._shelf_positions) - 2)) |->
            LET i == (k + 1) \div 2 + 1
                shelf_z == s._shelf_positions[i]
            IN  IF k % 2 = 1
                THEN JointMarker("Dado Left", i, s.joinery,
                         s.lumber_thickness - HalfMm, 0, shelf_z,
                         HalfMm, s.lumber_thickness, s.depth)
                ELSE JointMarker("Dado Right", i, s.joinery,
                         s.width - s.lumber_thickness, 0, shelf_z,
                         HalfMm, s.lumber_thickness, s.depth)]

\* BookshelfTemplate._get_joint_markers
bookshelf_get_joint_markers(s) ==
    IF s._shelf_positions = <<>> THEN <<>>
    ELSE LET side_thickness == s.lumber_thickness
             shelf_thickness == s.lumber_thickness
             marker_thickness == HalfMm
             n == Len(s._shelf_positions)
         IN  [k \in 1..(2 * n) |->
                LET i == (k + 1) \div 2
                    shelf_z == s._shelf_positions[i]
                IN  IF k % 2 = 1
                    THEN JointMarker("Dado Left", i, s.joinery,
                             side_thickness - marker_thickness, 0, shelf_z,
                             marker_thickness, shelf_thickness, s.depth)
                    ELSE JointMarker("Dado Right", i, s.joinery,
                             s.width - side_thickness, 0, shelf_z,
                             marker_thickness, shelf_thickness, s.depth)]

\* shelf positions that pile up on the instance across calls instead of being
\* reset: the variant the repeatability of generate() is checked against
bookshelf_shelf_positions_kept(s, shelf_thickness, shelf_spacing) ==
    s._shelf_positions
    \o <<0>>
    \o [i \in 1..s.shelves |->
          shelf_thickness + i * shelf_spacing + (i - 1) * shelf_thickness]
    \o <<s.height - shelf_thickness>>

\* a usable height that forgets the top and bottom panels: the variant the
\* height validation is checked against
bookshelf_available_height_shelves_only(s) ==
    s.height - s.shelves * s.lumber_thickness

\* shelf positions that leave the shelves' own thickness out: the variant the
\* even spacing is checked against
bookshelf_shelf_positions_unstacked(s, shelf_thickness, shelf_spacing) ==
    <<0>>
    \o [i \in 1..s.shelves |-> shelf_thickness + i * shelf_spacing]
    \o <<s.height - shelf_thickness>>

\* the shelf positions generate() stores: bottom, each shelf, top
bookshelf_shelf_positions(s, shelf_thickness, shelf_spacing) ==
    <<0>>
    \o [i \in 1..s.shelves |->
          shelf_thickness + i * shelf_spacing + (i - 1) * shelf_thickness]
    \o <<s.height - shelf_thickness>>

\* the height generate() finds left between the panels once the shelves, the
\* top and the bottom are taken off
bookshelf_available_height(s) ==
    LET shelf_thickness == s.lumber_thickness
        total_shelf_height == s.shelves * shelf_thickness
        top_bottom_thickness == 2 * shelf_thickness
    IN  s.height - total_shelf_height - top_bottom_thickness

\* BookshelfTemplate.generate: the instance after the call and the result
bookshelf_generate(s) ==
    LET side_thickness == s.lumber_thickness
        shelf_thickness == s.lumber_thickness
        interior_width == s.width - (2 * side_thickness)
        total_shelf_height == s.shelves * shelf_thickness
        top_bottom_thickness == 2 * shelf_thickness
        available_height == bookshelf_available_height(s)
    IN  IF available_height <= 0
        THEN LET min_height == total_shelf_height + top_bottom_thickness
                               + mm(s.shelves + 1)
             IN  [self |-> s,
                  result |-> Failure(Message("Height is too small for shelves",
                      <<s.height, s.shelves, shelf_thickness, min_height>>))]
        ELSE
        LET shelf_spacing == Div(available_height, s.shelves + 1)
            cut_list == <<
                LumberPiece("Side Panel", s.lumber_width, s.height, s.depth, 2,
                            s.material),
                LumberPiece("Shelf", s.lumber_width, interior_width, s.depth,
                            s.shelves, s.material),
                LumberPiece("Top Panel", s.lumber_width, interior_width, s.depth,
                            1, s.material),
                LumberPiece("Bottom Panel", s.lumber_width, interior_width,
                            s.depth, 1, s.material) >>
            s2 == [s EXCEPT !._shelf_positions =
                       bookshelf_shelf_positions(s, shelf_thickness, shelf_spacing)]
            ruby_parts ==
                << _create_board_ruby("Left Side", 0, side_thickness, s.height,
                       s.depth, 0, 0, 0),
                   _create_board_ruby("Right Side", 0, side_thickness, s.height,
                       s.depth, s.width - side_thickness, 0, 0),
                   _create_board_ruby("Top", 0, interior_width, shelf_thickness,
                       s.depth, side_thickness, 0, s.height - shelf_thickness),
                   _create_board_ruby("Bottom", 0, interior_width, shelf_thickness,
                       s.depth, side_thickness, 0, 0) >>
                \o [i \in 1..s.shelves |->
                      _create_board_ruby("Shelf", i, interior_width,
                          shelf_thickness, s.depth, side_thickness, 0,
                          s2._shelf_positions[i + 1])]
                \o _generate_markers_ruby(s2, bookshelf_get_joint_markers(s2))
        IN  [self |-> s2,
             result |-> Success(_wrap_in_operation(ruby_parts, "Bookshelf"),
                                cut_list)]

---------------------------------------------------------------------------
(* templates/box.py *)

\* the lid's overhang: width + 10, depth + 10
LidOverhang == 10

\* the lid is drawn 20 mm above the walls
LidGap == 20

\* BoxTemplate.__init__
BoxTemplate(r) ==
    LET o == r.options
        b == BaseInit("box", "finger_joint", Arg(r.width, 200), Arg(r.height, 100),
                      Arg(r.depth, 150), Arg(r.lumber, S_90x12), r.joinery,
                      Arg(r.material, "pine"), r.region, o)
    IN  IF ~b.ok THEN b
        ELSE [ok |-> TRUE,
              self |-> Merge(b.self,
                  [has_lid |-> Opt(o, "has_lid", TRUE),
                   _box_height |-> 0, _wall_thickness |-> 0,
                   _bottom_thickness |-> 0, _interior_depth |-> 0])]

\* BoxTemplate._get_joint_markers
box_get_joint_markers(s) ==
    IF s._box_height <= 0 THEN <<>>
    ELSE LET marker_thickness == HalfMm
             wall == s._wall_thickness
             bottom_z == s._bottom_thickness
         IN << JointMarker("Corner Front-Left", 0, s.joinery,
                   0, wall - marker_thickness, bottom_z,
                   wall, s._box_height, marker_thickness),
               JointMarker("Corner Front-Right", 0, s.joinery,
                   s.width - wall, wall - marker_thickness, bottom_z,
                   wall, s._box_height, marker_thickness),
               JointMarker("Corner Back-Left", 0, s.joinery,
                   0, s.depth - wall, bottom_z,
                   wall, s._box_height, marker_thickness),
               JointMarker("Corner Back-Right", 0, s.joinery,
                   s.width - wall, s.depth - wall, bottom_z,
                   wall, s._box_height, marker_thickness),
               JointMarker("Bottom Front", 0, "rabbet",
                   wall, wall, bottom_z - marker_thickness,
                   s.width - 2 * wall, marker_thickness, marker_thickness),
               JointMarker("Bottom Back", 0, "rabbet",
                   wall, s.depth - wall - marker_thickness,
                   bottom_z - marker_thickness,
                   s.width - 2 * wall, marker_thickness, marker_thickness),
               JointMarker("Bottom Left", 0, "rabbet",
                   wall, wall, bottom_z - marker_thickness,
                   marker_thickness, marker_thickness, s._interior_depth),
               JointMarker("Bottom Right", 0, "rabbet",
                   s.width - wall - marker_thickness, wall,
                   bottom_z - marker_thickness,
                   marker_thickness, marker_thickness, s._interior_depth) >>

\* BoxTemplate.generate
box_generate(s) ==
    LET wall_thickness == s.lumber_thickness
        bottom_thickness == s.lumber_thickness
        interior_width == s.width - (2 * wall_thickness)
        interior_depth == s.depth - (2 * wall_thickness)
        box_height == s.height - bottom_thickness
                      - (IF s.has_lid THEN wall_thickness ELSE 0)
    IN  IF box_height <= 0
        THEN LET min_height == IF s.has_lid
                               THEN bottom_thickness + wall_thickness + mm(1)
                               ELSE bottom_thickness + mm(1)
             IN  [self |-> s,
                  result |-> Failure(Message("Height is too small for a box",
                      <<s.height, wall_thickness, min_height>>))]
        ELSE IF interior_width <= 0 \/ interior_depth <= 0
        THEN [self |-> s,
              result |-> Failure(Message("Width or depth is too small",
                  <<s.width, s.depth, wall_thickness, (2 * wall_thickness) + mm(1)>>))]
        ELSE
        LET s2 == [s EXCEPT !._box_height = box_height,
                            !._wall_thickness = wall_thickness,
                            !._bottom_thickness = bottom_thickness,
                            !._interior_depth = interior_depth]
            cut_list ==
                << LumberPiece("Front/Back Panel", s.lumber_width, s.width,
                       box_height, 2, s.material),
                   LumberPiece("Side Panel", s.lumber_width, interior_depth,
                       box_height, 2, s.material),
                   LumberPiece("Bottom", s.lumber_width, interior_width,
                       interior_depth, 1, s.material) >>
                \o (IF s.has_lid
                    THEN << LumberPiece("Lid", s.lumber_width,
                                s.width + mm(LidOverhang), s.depth + mm(LidOverhang),
                                1, s.material) >>
                    ELSE <<>>)
            lid_z == bottom_thickness + box_height + mm(LidGap)
            ruby_parts ==
                << _create_board_ruby("Front", 0, s.width, box_height,
                       wall_thickness, 0, 0, bottom_thickness),
                   _create_board_ruby("Back", 0, s.width, box_height,
                       wall_thickness, 0, s.depth - wall_thickness, bottom_thickness),
                   _create_board_ruby("Left Side", 0, wall_thickness, box_height,
                       interior_depth, 0, wall_thickness, bottom_thickness),
                   _create_board_ruby("Right Side", 0, wall_thickness, box_height,
                       interior_depth, s.width - wall_thickness, wall_thickness,
                       bottom_thickness),
                   _create_board_ruby("Bottom", 0, interior_width, bottom_thickness,
                       interior_depth, wall_thickness, wall_thickness, 0) >>
                \o (IF s.has_lid
                    THEN << _create_board_ruby("Lid", 0, s.width + mm(LidOverhang),
                                wall_thickness, s.depth + mm(LidOverhang),
                                0 - mm(5), 0 - mm(5), lid_z) >>
                    ELSE <<>>)
                \o _generate_markers_ruby(s2, box_get_joint_markers(s2))
        IN  [self |-> s2,
             result |-> Success(_wrap_in_operation(ruby_parts, "Box"), cut_list)]

---------------------------------------------------------------------------
(* templates/table.py *)

\* a table of defaults that knows the dining preset only: the variant the
\* per-preset resolution is checked against
VARIANT_DEFAULTS_dining(variant) == <<1800, 750, 900>>

\* TableTemplate.VARIANT_DEFAULTS.get(variant, VARIANT_DEFAULTS["dining"])
VARIANT_DEFAULTS(variant) ==
    CASE variant = "coffee" -> <<1200, 450, 600>>
      [] variant = "end" -> <<500, 500, 500>>
      [] OTHER -> <<1800, 750, 900>>

\* TableTemplate.__init__
TableTemplate(r) ==
    LET o == r.options
        variant == Opt(o, "variant", "dining")
        default_dims == VARIANT_DEFAULTS(variant)
        b == BaseInit("table", "mortise_tenon", Arg(r.width, default_dims[1]),
                      Arg(r.height, default_dims[2]), Arg(r.depth, default_dims[3]),
                      Arg(r.lumber, S_90x45), r.joinery,
                      Arg(r.material, "pine"), r.region, o)
    IN  IF ~b.ok THEN b
        ELSE [ok |-> TRUE,
              self |-> Merge(b.self,
                  [variant |-> variant,
                   has_aprons |-> Opt(o, "has_aprons", TRUE),
                   has_stretchers |-> Opt(o, "has_stretchers", FALSE),
                   leg_inset |-> mm(Opt(o, "leg_inset", 50)),
                   _leg_size |-> 0, _leg_height |-> 0, _apron_height |-> 0,
                   _apron_thickness |-> 0, _leg_x_positions |-> <<>>,
                   _leg_y_positions |-> <<>>, _apron_z |-> 0, _stretcher_z |-> 0])]

\* the markers of leg i (1..4) in TableTemplate._get_joint_markers
table_leg_markers(s, i) ==
    LET marker_thickness == HalfMm
        leg == s._leg_size
        apron_h == s._apron_height
        lx == s._leg_x_positions[IF i \in {1, 3} THEN 1 ELSE 2]
        ly == s._leg_y_positions[IF i \in {1, 2} THEN 1 ELSE 2]
        front == i \in {1, 2}
        left == i \in {1, 3}
        at(kind, z) ==
            << IF front
               THEN JointMarker("Leg Front " \o kind, i, s.joinery,
                        lx, ly - marker_thickness, z, leg, apron_h, marker_thickness)
               ELSE JointMarker("Leg Back " \o kind, i, s.joinery,
                        lx, ly + leg, z, leg, apron_h, marker_thickness),
               IF left
               THEN JointMarker("Leg Side " \o kind, i, s.joinery,
                        lx - marker_thickness, ly, z, marker_thickness, apron_h, leg)
               ELSE JointMarker("Leg Side " \o kind, i, s.joinery,
                        lx + leg, ly, z, marker_thickness, apron_h, leg) >>
    IN  (IF s.has_aprons THEN at("Apron", s._apron_z) ELSE <<>>)
        \o (IF s.has_stretchers /\ s._stretcher_z > 0
            THEN at("Stretcher", s._stretcher_z) ELSE <<>>)

\* TableTemplate._get_joint_markers
table_get_joint_markers(s) ==
    IF s._leg_size <= 0 \/ s._leg_x_positions = <<>> THEN <<>>
    ELSE table_leg_markers(s, 1) \o table_leg_markers(s, 2)
         \o table_leg_markers(s, 3) \o table_leg_markers(s, 4)

\* the four rails (aprons or stretchers) at height z
table_rails(kind, long_apron_length, short_apron_length, apron_height,
            apron_thickness, leg_size, xs, ys, z) ==
    << _create_board_ruby("Front " \o kind, 0, long_apron_length, apron_height,
           apron_thickness, xs[1] + leg_size, ys[1], z),
       _create_board_ruby("Back " \o kind, 0, long_apron_length, apron_height,
           apron_thickness, xs[1] + leg_size, ys[2] + leg_size - apron_thickness, z),
       _create_board_ruby("Left " \o kind, 0, apron_thickness, apron_height,
           short_apron_length, xs[1], ys[1] + leg_size, z),
       _create_board_ruby("Right " \o kind, 0, apron_thickness, apron_height,
           short_apron_length, xs[2] + leg_size - apron_thickness,
           ys[1] + leg_size, z) >>

\* TableTemplate.generate
table_generate(s) ==
    LET leg_size == s.lumber_thickness
        tabletop_thickness == s.lumber_thickness
        apron_height == s.lumber_width
        apron_thickness == s.lumber_thickness
        leg_x_positions == <<s.leg_inset, s.width - s.leg_inset - leg_size>>
        leg_y_positions == <<s.leg_inset, s.depth - s.leg_inset - leg_size>>
        long_apron_length == s.width - (2 * s.leg_inset) - (2 * leg_size)
        short_apron_length == s.depth - (2 * s.leg_inset) - (2 * leg_size)
        leg_height == s.height - tabletop_thickness
    IN  IF long_apron_length <= 0 \/ short_apron_length <= 0
        THEN [self |-> s,
              result |-> Failure(Message("Table dimensions too small for legs",
                  <<leg_size, s.leg_inset, 2 * s.leg_inset + 2 * leg_size>>))]
        ELSE IF leg_height <= apron_height
        THEN [self |-> s,
              result |-> Failure(Message("Table height too small for aprons",
                  <<s.height, apron_height,
                    tabletop_thickness + apron_height + mm(50)>>))]
        ELSE
        LET stretcher_z == Div(leg_height, 3) - Div(apron_height, 2)
            s2 == [s EXCEPT !._leg_size = leg_size,
                            !._leg_height = leg_height,
                            !._apron_height = apron_height,
                            !._apron_thickness = apron_thickness,
                            !._leg_x_positions = leg_x_positions,
                            !._leg_y_positions = leg_y_positions,
                            !._apron_z = IF s.has_aprons
                                         THEN leg_height - apron_height ELSE 0,
                            !._stretcher_z = IF s.has_stretchers
                                             THEN stretcher_z ELSE 0]
            cut_list ==
                << LumberPiece("Tabletop", tabletop_thickness, s.width, s.depth, 1,
                       s.material),
                   LumberPiece("Leg", leg_size, leg_size, leg_height, 4,
                       s.material) >>
                \o (IF s.has_aprons
                    THEN << LumberPiece("Long Apron", apron_thickness, apron_height,
                                long_apron_length, 2, s.material),
                            LumberPiece("Short Apron", apron_thickness, apron_height,
                                short_apron_length, 2, s.material) >>
                    ELSE <<>>)
                \o (IF s.has_stretchers
                    THEN << LumberPiece("Long Stretcher", apron_thickness,
                                apron_height, long_apron_length, 2, s.material),
                            LumberPiece("Short Stretcher", apron_thickness,
                                apron_height, short_apron_length, 2, s.material) >>
                    ELSE <<>>)
            ruby_parts ==
                << _create_board_ruby("Tabletop", 0, s.width, tabletop_thickness,
                       s.depth, 0, 0, leg_height) >>
                \o [i \in 1..4 |->
                      _create_board_ruby("Leg", i, leg_size, leg_height, leg_size,
                          leg_x_positions[IF i \in {1, 3} THEN 1 ELSE 2],
                          leg_y_positions[IF i \in {1, 2} THEN 1 ELSE 2], 0)]
                \o (IF s.has_aprons
                    THEN table_rails("Apron", long_apron_length, short_apron_length,
                             apron_height, apron_thickness, leg_size,
                             leg_x_positions, leg_y_positions,
                             leg_height - apron_height)
                    ELSE <<>>)
                \o (IF s.has_stretchers
                    THEN table_rails("Stretcher", long_apron_length,
                             short_apron_length, apron_height, apron_thickness,
                             leg_size, leg_x_positions, leg_y_positions, stretcher_z)
                    ELSE <<>>)
                \o _generate_markers_ruby(s2, table_get_joint_markers(s2))
        IN  [self |-> s2,
             result |-> Success(_wrap_in_operation(ruby_parts, "Table"), cut_list)]

---------------------------------------------------------------------------
(* templates/cabinet.py *)

\* CabinetTemplate.__init__
CabinetTemplate(r) ==
    LET o == r.options
        b == BaseInit("cabinet", "dado", Arg(r.width, 600), Arg(r.height, 800),
                      Arg(r.depth, 400), Arg(r.lumber, S_90x19), r.joinery,
                      Arg(r.material, "pine"), r.region, o)
    IN  IF ~b.ok THEN b
        ELSE [ok |-> TRUE,
              self |-> Merge(b.self,
                  [has_doors |-> Opt(o, "has_doors", TRUE),
                   door_count |-> Max(1, Min(2, Opt(o, "door_count", 2))),
                   shelf_count |-> Max(0, Opt(o, "shelf_count", 2)),
                   has_base |-> Opt(o, "has_base", TRUE),
                   base_height |-> mm(Opt(o, "base_height", 80))])]

\* CabinetTemplate.generate
cabinet_generate(s) ==
    LET panel_thickness == s.lumber_thickness
        door_thickness == s.lumber_thickness
        carcass_height == s.height - (IF s.has_base THEN s.base_height ELSE 0)
        interior_width == s.width - (2 * panel_thickness)
        interior_depth == s.depth - panel_thickness
    IN  IF interior_width <= 0
        THEN [self |-> s,
              result |-> Failure(Message("Cabinet width too small for panels",
                  <<s.width, panel_thickness, 2 * panel_thickness + mm(50)>>))]
        ELSE IF carcass_height <= panel_thickness * 2
        THEN [self |-> s,
              result |-> Failure(Message("Cabinet height too small with base",
                  <<s.height, s.base_height, s.base_height + panel_thickness * 3>>))]
        ELSE
        LET available_height == carcass_height - (2 * panel_thickness)
            shelf_spacing == IF s.shelf_count > 0
                             THEN Div(available_height, s.shelf_count + 1)
                             ELSE available_height
            door_width == IF s.door_count > 1 THEN Div(s.width, s.door_count)
                          ELSE s.width
            door_height == carcass_height
            door_gap == mm(3)
            base_z == IF s.has_base THEN s.base_height ELSE 0
            cut_list ==
                << LumberPiece("Side Panel", s.lumber_width, carcass_height,
                       s.depth, 2, s.material),
                   LumberPiece("Top Panel", s.lumber_width, interior_width,
                       s.depth, 1, s.material),
                   LumberPiece("Bottom Panel", s.lumber_width, interior_width,
                       s.depth, 1, s.material),
                   LumberPiece("Back Panel", s.lumber_width, interior_width,
                       carcass_height - (2 * panel_thickness), 1, s.material) >>
                \o (IF s.shelf_count > 0
                    THEN << LumberPiece("Shelf", s.lumber_width, interior_width,
                                interior_depth - mm(10), s.shelf_count, s.material) >>
                    ELSE <<>>)
                \o (IF s.has_base
                    THEN << LumberPiece("Base/Toe Kick", s.lumber_width,
                                s.width - (2 * panel_thickness), s.base_height, 1,
                                s.material) >>
                    ELSE <<>>)
                \o (IF s.has_doors
                    THEN << LumberPiece("Door", s.lumber_width, door_width - mm(3),
                                door_height - mm(3), s.door_count, s.material) >>
                    ELSE <<>>)
            ruby_parts ==
                << _create_board_ruby("Left Side", 0, panel_thickness,
                       carcass_height, s.depth, 0, 0, base_z),
                   _create_board_ruby("Right Side", 0, panel_thickness,
                       carcass_height, s.depth, s.width - panel_thickness, 0, base_z),
                   _create_board_ruby("Top", 0, interior_width, panel_thickness,
                       s.depth, panel_thickness, 0,
                       base_z + carcass_height - panel_thickness),
                   _create_board_ruby("Bottom", 0, interior_width, panel_thickness,
                       s.depth, panel_thickness, 0, base_z),
                   _create_board_ruby("Back Panel", 0, interior_width,
                       carcass_height - (2 * panel_thickness), panel_thickness,
                       panel_thickness, s.depth - panel_thickness,
                       base_z + panel_thickness) >>
                \o [i \in 1..s.shelf_count |->
                      _create_board_ruby("Shelf", i, interior_width,
                          panel_thickness, interior_depth - mm(10), panel_thickness,
                          0, base_z + panel_thickness + i * shelf_spacing)]
                \o (IF s.has_base
                    THEN << _create_board_ruby("Toe Kick", 0,
                                s.width - (2 * panel_thickness), s.base_height,
                                panel_thickness, panel_thickness, mm(50), 0) >>
                    ELSE <<>>)
                \o (IF s.has_doors
                    THEN [i \in 1..s.door_count |->
                            _create_board_ruby("Door", i, door_width - door_gap,
                                door_height - door_gap, door_thickness,
                                (i - 1) * door_width + Div(door_gap, 2),
                                0 - mm(20), base_z + Div(door_gap, 2))]
                    ELSE <<>>)
        IN  [self |-> s,
             result |-> Success(_wrap_in_operation(ruby_parts, "Cabinet"), cut_list)]

---------------------------------------------------------------------------
(* templates/workbench.py *)

\* a constructor that takes the leg count as requested whatever the width:
\* the variant the escalation to 6 legs is checked against
WorkbenchTemplate_as_requested(r) ==
    LET o == r.options
        width == Arg(r.width, 1800)
        b == BaseInit("workbench", "mortise_tenon", width, Arg(r.height, 900),
                      Arg(r.depth, 600), Arg(r.lumber, S_90x45), r.joinery,
                      Arg(r.material, "pine"), r.region, o)
    IN  IF ~b.ok THEN b
        ELSE [ok |-> TRUE,
              self |-> Merge(b.self,
                  [has_shelf |-> Opt(o, "has_shelf", TRUE),
                   leg_count |-> IF Opt(o, "leg_count", 4) = 6 THEN 6 ELSE 4,
                   apron_style |-> Opt(o, "apron_style", "full"),
                   top_thickness |-> mm(Max(45, Opt(o, "top_thickness", 45)))])]

\* WorkbenchTemplate.__init__
WorkbenchTemplate(r) ==
    LET o == r.options
        width == Arg(r.width, 1800)
        b == BaseInit("workbench", "mortise_tenon", width, Arg(r.height, 900),
                      Arg(r.depth, 600), Arg(r.lumber, S_90x45), r.joinery,
                      Arg(r.material, "pine"), r.region, o)
    IN  IF ~b.ok THEN b
        ELSE [ok |-> TRUE,
              self |-> Merge(b.self,
                  [has_shelf |-> Opt(o, "has_shelf", TRUE),
                   leg_count |-> IF Opt(o, "leg_count", 4) = 6 \/ width > 2000
                                 THEN 6 ELSE 4,
                   apron_style |-> Opt(o, "apron_style", "full"),
                   top_thickness |-> mm(Max(45, Opt(o, "top_thickness", 45)))])]

\* the long rails (aprons or stretchers) of every section between legs, front
\* then back, at height z
workbench_long_rails(kind, leg_x_positions, leg_y_positions, leg_size,
                     apron_height, apron_thickness, z) ==
    [k \in 1..(2 * (Len(leg_x_positions) - 1)) |->
        LET section_idx == (k + 1) \div 2
            start_x == leg_x_positions[section_idx] + leg_size
            section_length == leg_x_positions[section_idx + 1] - start_x
        IN  IF k % 2 = 1
            THEN _create_board_ruby("Front " \o kind, section_idx, section_length,
                     apron_height, apron_thickness, start_x, leg_y_positions[1], z)
            ELSE _create_board_ruby("Back " \o kind, section_idx, section_length,
                     apron_height, apron_thickness, start_x,
                     leg_y_positions[2] + leg_size - apron_thickness, z)]

\* the two end rails at height z
workbench_end_rails(kind, leg_x_positions, leg_y_positions, leg_size,
                    apron_height, apron_thickness, short_rail_length, z) ==
    << _create_board_ruby("Left " \o kind, 0, apron_thickness, apron_height,
           short_rail_length, leg_x_positions[1], leg_y_positions[1] + leg_size, z),
       _create_board_ruby("Right " \o kind, 0, apron_thickness, apron_height,
           short_rail_length,
           leg_x_positions[Len(leg_x_positions)] + leg_size - apron_thickness,
           leg_y_positions[1] + leg_size, z) >>

\* WorkbenchTemplate.generate
workbench_generate(s) ==
    LET leg_size == s.lumber_thickness
        apron_height == s.lumber_width
        apron_thickness == s.lumber_thickness
        leg_inset == mm(50)
        leg_height == s.height - s.top_thickness
        shelf_z == Div(leg_height, 3)
        leg_x_positions ==
            IF s.leg_count = 6
            THEN <<leg_inset, Div(s.width - leg_size, 2),
                   s.width - leg_inset - leg_size>>
            ELSE <<leg_inset, s.width - leg_inset - leg_size>>
        leg_y_positions == <<leg_inset, s.depth - leg_inset - leg_size>>
        long_rail_length ==
            IF s.leg_count = 6
            THEN Div(s.width - leg_size, 2) - leg_inset - leg_size
            ELSE s.width - (2 * leg_inset) - (2 * leg_size)
        short_rail_length == s.depth - (2 * leg_inset) - (2 * leg_size)
    IN  IF long_rail_length <= 0 \/ short_rail_length <= 0
        THEN [self |-> s,
              result |-> Failure(Message("Workbench dimensions too small for legs",
                  <<leg_size, 2 * leg_inset + 2 * leg_size + mm(100)>>))]
        ELSE IF leg_height < apron_height + mm(100)
        THEN [self |-> s,
              result |-> Failure(Message("Workbench height too small",
                  <<s.height, s.top_thickness + apron_height + mm(200)>>))]
        ELSE
        LET rail_qty_multiplier == IF s.leg_count = 4 THEN 2 ELSE 4
            cut_list ==
                << LumberPiece("Benchtop", s.lumber_width, s.width, s.depth, 1,
                       s.material),
                   LumberPiece("Leg", leg_size, leg_size, leg_height, s.leg_count,
                       s.material) >>
                \o (IF s.apron_style = "full"
                    THEN << LumberPiece("Long Apron", apron_thickness, apron_height,
                                long_rail_length, rail_qty_multiplier, s.material),
                            LumberPiece("Short Apron", apron_thickness, apron_height,
                                short_rail_length, 2, s.material) >>
                    ELSE << LumberPiece("Long Rail", apron_thickness, apron_height,
                                long_rail_length, rail_qty_multiplier * 2,
                                s.material) >>)
                \o << LumberPiece("Long Stretcher", apron_thickness, apron_height,
                          long_rail_length, rail_qty_multiplier, s.material),
                      LumberPiece("Short Stretcher", apron_thickness, apron_height,
                          short_rail_length, 2, s.material) >>
                \o (IF s.has_shelf
                    THEN << LumberPiece("Lower Shelf", s.lumber_width,
                                s.width - (2 * leg_inset) - leg_size,
                                s.depth - (2 * leg_inset) - leg_size, 1, s.material) >>
                    ELSE <<>>)
            apron_z == leg_height - apron_height
            stretcher_z == shelf_z - apron_height
            nx == Len(leg_x_positions)
            shelf_x == leg_x_positions[1] + leg_size
            shelf_y == leg_y_positions[1] + leg_size
            ruby_parts ==
                << _create_board_ruby("Benchtop", 0, s.width, s.top_thickness,
                       s.depth, 0, 0, leg_height) >>
                \o [k \in 1..(2 * nx) |->
                      _create_board_ruby("Leg", k, leg_size, leg_height, leg_size,
                          leg_x_positions[(k + 1) \div 2],
                          leg_y_positions[IF k % 2 = 1 THEN 1 ELSE 2], 0)]
                \o workbench_long_rails("Apron", leg_x_positions, leg_y_positions,
                       leg_size, apron_height, apron_thickness, apron_z)
                \o workbench_end_rails("Apron", leg_x_positions, leg_y_positions,
                       leg_size, apron_height, apron_thickness, short_rail_length,
                       apron_z)
                \o workbench_long_rails("Stretcher", leg_x_positions,
                       leg_y_positions, leg_size, apron_height, apron_thickness,
                       stretcher_z)
                \o workbench_end_rails("Stretcher", leg_x_positions,
                       leg_y_positions, leg_size, apron_height, apron_thickness,
                       short_rail_length, stretcher_z)
                \o (IF s.has_shelf
                    THEN << _create_board_ruby("Lower Shelf", 0,
                                leg_x_positions[nx] - shelf_x, s.lumber_thickness,
                                leg_y_positions[2] - shelf_y, shelf_x, shelf_y,
                                shelf_z) >>
                    ELSE <<>>)
        IN  [self |-> s,
             result |-> Success(_wrap_in_operation(ruby_parts, "Workbench"),
                                cut_list)]

---------------------------------------------------------------------------
(* templates/desk.py *)

\* DeskTemplate.__init__
DeskTemplate(r) ==
    LET o == r.options
        b == BaseInit("desk", "dado", Arg(r.width, 1400), Arg(r.height, 750),
                      Arg(r.depth, 700), Arg(r.lumber, S_90x19), r.joinery,
                      Arg(r.material, "pine"), r.region, o)
    IN  IF ~b.ok THEN b
        ELSE [ok |-> TRUE,
              self |-> Merge(b.self,
                  [has_drawer |-> Opt(o, "has_drawer", TRUE),
                   drawer_side |-> Opt(o, "drawer_side", "right"),
                   has_keyboard_tray |-> Opt(o, "has_keyboard_tray", FALSE),
                   has_back_panel |-> Opt(o, "has_back_panel", FALSE)])]

\* DeskTemplate.generate
desk_generate(s) ==
    LET panel_thickness == s.lumber_thickness
        desktop_thickness == s.lumber_thickness
        leg_panel_height == s.height - desktop_thickness
        leg_panel_depth == s.depth - mm(50)
        drawer_unit_width == mm(400)
        drawer_height == mm(150)
    IN  IF s.width < mm(600)
        THEN [self |-> s,
              result |-> Failure(Message("Desk width too small",
                  <<s.width, mm(600)>>))]
        ELSE IF leg_panel_height < mm(400)
        THEN [self |-> s,
              result |-> Failure(Message("Desk height too small",
                  <<s.height, desktop_thickness + mm(400)>>))]
        ELSE
        LET left_drawer == s.has_drawer /\ s.drawer_side \in {"left", "both"}
            right_drawer == s.has_drawer /\ s.drawer_side \in {"right", "both"}
            left_panel_x == 0
            right_panel_x == s.width - panel_thickness
            drawer_count == (IF left_drawer THEN 1 ELSE 0)
                            + (IF right_drawer THEN 1 ELSE 0)
            cut_list ==
                << LumberPiece("Desktop", s.lumber_width, s.width, s.depth, 1,
                       s.material),
                   LumberPiece("Leg Panel", s.lumber_width, leg_panel_depth,
                       leg_panel_height, 2, s.material),
                   LumberPiece("Back Rail", s.lumber_width,
                       s.width - (2 * panel_thickness), s.lumber_width, 1,
                       s.material) >>
                \o (IF drawer_count > 0
                    THEN << LumberPiece("Drawer Front", s.lumber_width,
                                drawer_unit_width - mm(20), drawer_height - mm(10),
                                drawer_count, s.material),
                            LumberPiece("Drawer Side", s.lumber_width,
                                leg_panel_depth - mm(50), drawer_height - mm(30),
                                drawer_count * 2, s.material),
                            LumberPiece("Drawer Back", s.lumber_width,
                                drawer_unit_width - mm(60), drawer_height - mm(30),
                                drawer_count, s.material),
                            LumberPiece("Drawer Bottom", s.lumber_width,
                                drawer_unit_width - mm(60), leg_panel_depth - mm(70),
                                drawer_count, s.material) >>
                    ELSE <<>>)
                \o (IF s.has_keyboard_tray
                    THEN << LumberPiece("Keyboard Tray", s.lumber_width, mm(600),
                                mm(300), 1, s.material) >>
                    ELSE <<>>)
                \o (IF s.has_back_panel
                    THEN << LumberPiece("Back Panel", s.lumber_width,
                                s.width - (2 * panel_thickness),
                                leg_panel_height - mm(200), 1, s.material) >>
                    ELSE <<>>)
            rail_z == leg_panel_height - s.lumber_width - mm(50)
            drawer_z == leg_panel_height - drawer_height - mm(50)
            ruby_parts ==
                << _create_board_ruby("Desktop", 0, s.width, desktop_thickness,
                       s.depth, 0, 0, leg_panel_height),
                   _create_board_ruby("Left Leg Panel", 0, panel_thickness,
                       leg_panel_height, leg_panel_depth, left_panel_x,
                       s.depth - leg_panel_depth, 0),
                   _create_board_ruby("Right Leg Panel", 0, panel_thickness,
                       leg_panel_height, leg_panel_depth, right_panel_x,
                       s.depth - leg_panel_depth, 0),
                   _create_board_ruby("Back Rail", 0,
                       s.width - (2 * panel_thickness), s.lumber_width,
                       panel_thickness, panel_thickness, s.depth - panel_thickness,
                       rail_z) >>
                \o (IF left_drawer
                    THEN << _create_board_ruby("Left Drawer", 0,
                                drawer_unit_width - mm(20), drawer_height - mm(10),
                                leg_panel_depth - mm(50), panel_thickness + mm(10),
                                s.depth - leg_panel_depth + mm(25), drawer_z) >>
                    ELSE <<>>)
                \o (IF right_drawer
                    THEN << _create_board_ruby("Right Drawer", 0,
                                drawer_unit_width - mm(20), drawer_height - mm(10),
                                leg_panel_depth - mm(50),
                                s.width - panel_thickness - drawer_unit_width + mm(10),
                                s.depth - leg_panel_depth + mm(25), drawer_z) >>
                    ELSE <<>>)
                \o (IF s.has_keyboard_tray
                    THEN << _create_board_ruby("Keyboard Tray", 0, mm(600),
                                panel_thickness, mm(300), Div(s.width - mm(600), 2),
                                mm(50), leg_panel_height - mm(50)) >>
                    ELSE <<>>)
                \o (IF s.has_back_panel
                    THEN << _create_board_ruby("Back Panel", 0,
                                s.width - (2 * panel_thickness),
                                leg_panel_height - mm(200), panel_thickness,
                                panel_thickness, s.depth - panel_thickness - mm(10),
                                mm(100)) >>
                    ELSE <<>>)
        IN  [self |-> s,
             result |-> Success(_wrap_in_operation(ruby_parts, "Desk"), cut_list)]

---------------------------------------------------------------------------
(* templates/cutting_board.py *)

\* CuttingBoardTemplate.__init__
CuttingBoardTemplate(r) ==
    LET o == r.options
        b == BaseInit("cutting_board", "butt", Arg(r.width, 400), Arg(r.height, 25),
                      Arg(r.depth, 300), Arg(r.lumber, S_90x25), r.joinery,
                      Arg(r.material, "maple"), r.region, o)
    IN  IF ~b.ok THEN b
        ELSE [ok |-> TRUE,
              self |-> Merge(b.self,
                  [pattern |-> Opt(o, "pattern", "edge_grain"),
                   stripe_count |-> Max(1, Opt(o, "stripe_count", 5))])]

\* CuttingBoardTemplate.generate
cutting_board_generate(s) ==
    LET board_thickness == s.height
    IN  IF board_thickness < mm(15)
        THEN [self |-> s,
              result |-> Failure(Message("Cutting board thickness is too thin",
                  <<board_thickness, mm(15)>>))]
        ELSE IF s.width < mm(100) \/ s.depth < mm(100)
        THEN [self |-> s,
              result |-> Failure(Message("Cutting board dimensions too small",
                  <<s.width, s.depth, mm(100)>>))]
        ELSE
        LET stripe_width == Div(s.width, s.stripe_count)
            cut_list ==
                IF s.pattern = "end_grain"
                THEN << LumberPiece("End Grain Strip", s.lumber_width,
                            board_thickness, s.depth, s.stripe_count, s.material) >>
                ELSE << LumberPiece("Edge Grain Strip", stripe_width,
                            board_thickness, s.depth, s.stripe_count, s.material) >>
            ruby_parts ==
                << _create_board_ruby("Cutting Board", 0, s.width, board_thickness,
                       s.depth, 0, 0, 0) >>
        IN  [self |-> s,
             result |-> Success(_wrap_in_operation(ruby_parts, "Cutting Board"),
                                cut_list)]

---------------------------------------------------------------------------
(* templates/tray.py *)

\* TrayTemplate.__init__
TrayTemplate(r) ==
    LET o == r.options
        height == Arg(r.height, 50)
        b == BaseInit("tray", "rabbet", Arg(r.width, 400), height,
                      Arg(r.depth, 300), Arg(r.lumber, S_90x12), r.joinery,
                      Arg(r.material, "walnut"), r.region, o)
    IN  IF ~b.ok THEN b
        ELSE [ok |-> TRUE,
              self |-> Merge(b.self,
                  [has_handles |-> Opt(o, "has_handles", TRUE),
                   wall_height |-> mm(Min(Opt(o, "wall_height", 40), height - 5)),
                   has_dividers |-> Opt(o, "has_dividers", FALSE),
                   divider_count |-> Max(1, Opt(o, "divider_count", 1))])]

\* TrayTemplate.generate
tray_generate(s) ==
    LET wall_thickness == s.lumber_thickness
        bottom_thickness == s.lumber_thickness
        interior_width == s.width - (2 * wall_thickness)
        interior_depth == s.depth - (2 * wall_thickness)
    IN  IF interior_width <= 0 \/ interior_depth <= 0
        THEN [self |-> s,
              result |-> Failure(Message("Tray dimensions too small for walls",
                  <<s.width, s.depth, wall_thickness, 2 * wall_thickness + mm(50)>>))]
        ELSE IF s.wall_height < mm(20)
        THEN [self |-> s,
              result |-> Failure(Message("Wall height too small",
                  <<s.wall_height, mm(20)>>))]
        ELSE
        LET cut_list ==
                << LumberPiece("Bottom", s.lumber_width, interior_width,
                       interior_depth, 1, s.material),
                   LumberPiece("Long Wall", wall_thickness, s.width, s.wall_height,
                       2, s.material),
                   LumberPiece("End Wall", wall_thickness, interior_depth,
                       s.wall_height, 2, s.material) >>
                \o (IF s.has_dividers
                    THEN << LumberPiece("Divider", wall_thickness,
                                interior_depth - mm(10), s.wall_height - mm(10),
                                s.divider_count, s.material) >>
                    ELSE <<>>)
            section_width == Div(interior_width, s.divider_count + 1)
            ruby_parts ==
                << _create_board_ruby("Bottom", 0, interior_width, bottom_thickness,
                       interior_depth, wall_thickness, wall_thickness, 0),
                   _create_board_ruby("Front Wall", 0, s.width, s.wall_height,
                       wall_thickness, 0, 0, bottom_thickness),
                   _create_board_ruby("Back Wall", 0, s.width, s.wall_height,
                       wall_thickness, 0, s.depth - wall_thickness, bottom_thickness),
                   _create_board_ruby("Left End Wall", 0, wall_thickness,
                       s.wall_height, interior_depth, 0, wall_thickness,
                       bottom_thickness),
                   _create_board_ruby("Right End Wall", 0, wall_thickness,
                       s.wall_height, interior_depth, s.width - wall_thickness,
                       wall_thickness, bottom_thickness) >>
                \o (IF s.has_dividers
                    THEN [i \in 1..s.divider_count |->
                            _create_board_ruby("Divider", i, wall_thickness,
                                s.wall_height - mm(10), interior_depth - mm(10),
                                wall_thickness + i * section_width
                                    - Div(wall_thickness, 2),
                                wall_thickness + mm(5), bottom_thickness)]
                    ELSE <<>>)
        IN  [self |-> s,
             result |-> Success(_wrap_in_operation(ruby_parts, "Serving Tray"),
                                cut_list)]

---------------------------------------------------------------------------
(* templates/picture_frame.py *)

\* PictureFrameTemplate.__init__
PictureFrameTemplate(r) ==
    LET o == r.options
        depth == Arg(r.depth, 20)
        b == BaseInit("picture_frame", "miter", Arg(r.width, 300),
                      Arg(r.height, 400), depth, Arg(r.lumber, S_50x20), r.joinery,
                      Arg(r.material, "oak"), r.region, o)
    IN  IF ~b.ok THEN b
        ELSE [ok |-> TRUE,
              self |-> Merge(b.self,
                  [frame_width |-> mm(Opt(o, "frame_width", 50)),
                   rabbet_depth |-> mm(Min(Opt(o, "rabbet_depth", 10), depth - 5)),
                   mat_width |-> mm(Opt(o, "mat_width", 0)),
                   _inner_width |-> 0,
                   _inner_height |-> 0,
                   _frame_thickness |-> 0])]

\* PictureFrameTemplate._get_joint_markers
picture_frame_get_joint_markers(s) ==
    IF s._inner_width <= 0 THEN <<>>
    ELSE
    LET marker_thickness == HalfMm
        fw == s.frame_width
        ft == s._frame_thickness
        rabbet_y == ft - s.rabbet_depth
    IN  << JointMarker("Miter Top-Left", 0, "miter", 0, 0, s.height - fw,
               fw, marker_thickness, fw),
           JointMarker("Miter Top-Right", 0, "miter", s.width - fw, 0,
               s.height - fw, fw, marker_thickness, fw),
           JointMarker("Miter Bottom-Left", 0, "miter", 0, 0, 0,
               fw, marker_thickness, fw),
           JointMarker("Miter Bottom-Right", 0, "miter", s.width - fw, 0, 0,
               fw, marker_thickness, fw),
           JointMarker("Rabbet Top", 0, "rabbet", fw, rabbet_y,
               s.height - fw - marker_thickness, s._inner_width, marker_thickness,
               s.rabbet_depth),
           JointMarker("Rabbet Bottom", 0, "rabbet", fw, rabbet_y, fw,
               s._inner_width, marker_thickness, s.rabbet_depth) >>

\* PictureFrameTemplate.generate
picture_frame_generate(s) ==
    LET frame_thickness == s.depth
        inner_width == s.width - (2 * s.frame_width)
        inner_height == s.height - (2 * s.frame_width)
        picture_width == IF s.mat_width > 0
                         THEN inner_width - (2 * s.mat_width) ELSE inner_width
        picture_height == IF s.mat_width > 0
                          THEN inner_height - (2 * s.mat_width) ELSE inner_height
    IN  IF inner_width <= 0 \/ inner_height <= 0
        THEN [self |-> s,
              result |-> Failure(Message("Frame dimensions too small",
                  <<s.width, s.height, s.frame_width>>))]
        ELSE IF s.mat_width > 0 /\ (picture_width <= 0 \/ picture_height <= 0)
        THEN [self |-> s,
              result |-> Failure(Message("Mat width too large for inner opening",
                  <<s.mat_width, inner_width, inner_height>>))]
        ELSE
        LET s2 == [s EXCEPT !._inner_width = inner_width,
                            !._inner_height = inner_height,
                            !._frame_thickness = frame_thickness]
            top_bottom_length == s.width
            side_length == s.height
            cut_list ==
                << LumberPiece("Top/Bottom Rail", s.frame_width, frame_thickness,
                       top_bottom_length, 2, s.material),
                   LumberPiece("Side Rail", s.frame_width, frame_thickness,
                       side_length, 2, s.material),
                   LumberPiece("Glass", mm(3), inner_width + mm(4),
                       inner_height + mm(4), 1, "glass"),
                   LumberPiece("Backing Board", mm(3), inner_width + mm(4),
                       inner_height + mm(4), 1, "mdf") >>
                \o (IF s.mat_width > 0
                    THEN << LumberPiece("Mat Board", mm(2), inner_width,
                                inner_height, 1, "mat_board") >>
                    ELSE <<>>)
            glass_inset == frame_thickness - s.rabbet_depth
            ruby_parts ==
                << _create_board_ruby("Top Rail", 0, s.width, frame_thickness,
                       s.frame_width, 0, 0, s.height - s.frame_width),
                   _create_board_ruby("Bottom Rail", 0, s.width, frame_thickness,
                       s.frame_width, 0, 0, 0),
                   _create_board_ruby("Left Rail", 0, s.frame_width, frame_thickness,
                       inner_height, 0, 0, s.frame_width),
                   _create_board_ruby("Right Rail", 0, s.frame_width,
                       frame_thickness, inner_height, s.width - s.frame_width, 0,
                       s.frame_width),
                   _create_board_ruby("Glass", 0, inner_width + mm(4), mm(3),
                       inner_height + mm(4), s.frame_width - mm(2), glass_inset,
                       s.frame_width - mm(2)),
                   _create_board_ruby("Backing", 0, inner_width + mm(4), mm(3),
                       inner_height + mm(4), s.frame_width - mm(2),
                       glass_inset + mm(5), s.frame_width - mm(2)) >>
                \o _generate_markers_ruby(s2, picture_frame_get_joint_markers(s2))
        IN  [self |-> s2,
             result |-> Success(_wrap_in_operation(ruby_parts, "Picture Frame"),
                                cut_list)]

---------------------------------------------------------------------------
(* templates/shelf_bracket.py *)

\* ShelfBracketTemplate.__init__
ShelfBracketTemplate(r) ==
    LET o == r.options
        b == BaseInit("shelf_bracket", "bracket", Arg(r.width, 600),
                      Arg(r.height, 200), Arg(r.depth, 200), Arg(r.lumber, S_90x19),
                      r.joinery, Arg(r.material, "pine"), r.region, o)
    IN  IF ~b.ok THEN b
        ELSE [ok |-> TRUE,
              self |-> Merge(b.self,
                  [bracket_style |-> Opt(o, "bracket_style", "triangle"),
                   bracket_count |-> Max(2, Opt(o, "bracket_count", 2)),
                   has_shelf |-> Opt(o, "has_shelf", TRUE),
                   _bracket_positions |-> <<>>,
                   _board_thickness |-> 0,
                   _board_width |-> 0,
                   _vertical_length |-> 0])]

\* ShelfBracketTemplate._get_joint_markers
shelf_bracket_get_joint_markers(s) ==
    IF s._bracket_positions = <<>> \/ s._board_thickness <= 0 THEN <<>>
    ELSE [i \in 1..Len(s._bracket_positions) |->
            JointMarker("Bracket Shelf", i, s.joinery, s._bracket_positions[i], 0,
                s._vertical_length, s._board_thickness, HalfMm, s.depth)]

\* the boards of bracket i (1-based) at bracket_x
shelf_bracket_boards(s, i, bracket_x, diagonal_length) ==
    LET board_thickness == s.lumber_thickness
        board_width == s.lumber_width
        vertical_length == s.height
        horizontal_length == s.depth
        vertical == _create_board_ruby("Vertical", i, board_thickness,
                        vertical_length, board_width, bracket_x,
                        s.depth - board_width, 0)
        horizontal == _create_board_ruby("Horizontal", i, board_thickness,
                          board_width, horizontal_length, bracket_x, 0,
                          vertical_length - board_width)
    IN  IF s.bracket_style = "triangle"
        THEN << vertical, horizontal,
                _create_board_ruby("Diagonal", i, board_thickness, board_width,
                    (diagonal_length * 4) \div 5, bracket_x, board_width,
                    board_width) >>
        ELSE IF s.bracket_style = "L_bracket"
        THEN << vertical, horizontal >>
        ELSE << _create_board_ruby("Corbel", i, board_thickness, vertical_length,
                    horizontal_length, bracket_x, 0, 0) >>

\* the concatenation of the boards of brackets 1..n
RECURSIVE shelf_bracket_all(_, _, _, _)
shelf_bracket_all(s, n, bracket_spacing, diagonal_length) ==
    IF n = 0 THEN <<>>
    ELSE shelf_bracket_all(s, n - 1, bracket_spacing, diagonal_length)
         \o shelf_bracket_boards(s, n, (n - 1) * bracket_spacing, diagonal_length)

\* ShelfBracketTemplate.generate; math.sqrt is taken to the nearest 1/Scale mm
\* below the real root
shelf_bracket_generate(s) ==
    LET board_thickness == s.lumber_thickness
        board_width == s.lumber_width
        vertical_length == s.height
        horizontal_length == s.depth
        diagonal_length == ISqrt(vertical_length * vertical_length
                                 + horizontal_length * horizontal_length)
        shelf_thickness == board_thickness
        shelf_depth == s.depth
        bracket_spacing == Div(s.width - board_thickness, s.bracket_count - 1)
    IN  IF vertical_length < mm(100)
        THEN [self |-> s,
              result |-> Failure(Message("Bracket height too small",
                  <<vertical_length, mm(100)>>))]
        ELSE IF horizontal_length < mm(100)
        THEN [self |-> s,
              result |-> Failure(Message("Bracket depth too small",
                  <<horizontal_length, mm(100)>>))]
        ELSE
        LET s2 == [s EXCEPT !._board_thickness = board_thickness,
                            !._board_width = board_width,
                            !._vertical_length = vertical_length,
                            !._bracket_positions =
                                [i \in 1..s.bracket_count |-> (i - 1) * bracket_spacing]]
            vertical == LumberPiece("Vertical (Wall Mount)", board_thickness,
                            board_width, vertical_length, s.bracket_count, s.material)
            horizontal == LumberPiece("Horizontal (Support)", board_thickness,
                              board_width, horizontal_length, s.bracket_count,
                              s.material)
            cut_list ==
                (IF s.bracket_style = "triangle"
                 THEN << vertical, horizontal,
                         LumberPiece("Diagonal (Brace)", board_thickness,
                             board_width, diagonal_length, s.bracket_count,
                             s.material) >>
                 ELSE IF s.bracket_style = "L_bracket"
                 THEN << vertical, horizontal >>
                 ELSE << LumberPiece("Corbel Bracket", board_thickness,
                             horizontal_length, vertical_length, s.bracket_count,
                             s.material) >>)
                \o (IF s.has_shelf
                    THEN << LumberPiece("Shelf Board", board_thickness, s.width,
                                shelf_depth, 1, s.material) >>
                    ELSE <<>>)
            ruby_parts ==
                shelf_bracket_all(s, s.bracket_count, bracket_spacing,
                                  diagonal_length)
                \o (IF s.has_shelf
                    THEN << _create_board_ruby("Shelf", 0, s.width, shelf_thickness,
                                shelf_depth, 0, 0, vertical_length) >>
                    ELSE <<>>)
                \o _generate_markers_ruby(s2, shelf_bracket_get_joint_markers(s2))
        IN  [self |-> s2,
             result |-> Success(_wrap_in_operation(ruby_parts, "Shelf"), cut_list)]

---------------------------------------------------------------------------
(* The template layer: a caller constructs one Template and calls generate() *)

\* bound on the count options (shelves, dividers, brackets, stripes) drawn
MaxCount == 3

\* bound on the generate() calls made on one instance
MaxCalls == 2

S_abc == <<"a", "b", "c">>

Flags == BOOLEAN

\* the joinery argument: left out, a type JOINT_COLORS knows, one it does not
Joineries == {None, Some("miter"), Some("dovetail")}

\* the region argument
Regions == {"australia", "north_america"}

\* the requests for one kind: the dimension arguments drawn from W, H, D, the
\* stock descriptor from L, the remaining keyword arguments from O
ReqSet(kind, W, H, D, L, O) ==
    [template_type : {kind}, width : W, height : H, depth : D, lumber : L,
     joinery : Joineries, material : {None}, region : Regions,
     options : {<<>>} \cup O]

BookshelfRequests ==
    ReqSet("bookshelf", {None, Some(600), Some(38)},
        {None, Some(100), Some(95)}, {None, Some(300)},
        {None, Some(S_90x19), Some(S_abc)},
        [shelves : 0..MaxCount, show_joints : Flags])

BoxRequests ==
    ReqSet("box", {None, Some(24)}, {None, Some(20)}, {None, Some(24)}, {None},
        [has_lid : Flags, show_joints : Flags])

TableRequests ==
    ReqSet("table", {None}, {None, Some(200), Some(150), Some(130)}, {None},
        {None},
        [variant : {"dining", "coffee", "end"}, has_aprons : Flags,
         has_stretchers : Flags, show_joints : Flags])

CabinetRequests ==
    ReqSet("cabinet", {None, Some(38)}, {None, Some(150), Some(118)},
        {None, Some(29)}, {None},
        [has_doors : Flags, door_count : 1..2, shelf_count : 0..MaxCount,
         has_base : Flags, show_joints : Flags])

WorkbenchRequests ==
    ReqSet("workbench", {None, Some(2000), Some(2400)},
        {None, Some(250), Some(200)}, {None},
        {None},
        [has_shelf : Flags, leg_count : {4, 6},
         apron_style : {"full", "rails_only"}, show_joints : Flags])

DeskRequests ==
    ReqSet("desk", {None, Some(600), Some(599)}, {None, Some(418)}, {None}, {None},
        [has_drawer : Flags, drawer_side : {"left", "right", "both"},
         has_keyboard_tray : Flags, has_back_panel : Flags, show_joints : Flags])

CuttingBoardRequests ==
    ReqSet("cutting_board", {None, Some(99)}, {None, Some(14)}, {None}, {None},
        [pattern : {"edge_grain", "end_grain"}, stripe_count : 0..MaxCount,
         show_joints : Flags])

TrayRequests ==
    ReqSet("tray", {None, Some(24)}, {None, Some(24)}, {None}, {None},
        [has_dividers : Flags, divider_count : 0..MaxCount, show_joints : Flags])

PictureFrameRequests ==
    ReqSet("picture_frame", {None, Some(100)}, {None}, {None}, {None},
        [mat_width : {0, 20, 100}, show_joints : Flags])

ShelfBracketRequests ==
    ReqSet("shelf_bracket", {None}, {None, Some(99)}, {None, Some(99)}, {None},
        [bracket_style : {"triangle", "L_bracket", "corbel"},
         bracket_count : 1..MaxCount, has_shelf : Flags, show_joints : Flags])

Requests ==
    BookshelfRequests \cup BoxRequests \cup TableRequests \cup CabinetRequests
    \cup WorkbenchRequests \cup DeskRequests \cup CuttingBoardRequests
    \cup TrayRequests \cup PictureFrameRequests \cup ShelfBracketRequests

\* TEMPLATES[template_type](**kwargs)
Construct(r) ==
    CASE r.template_type = "bookshelf" -> BookshelfTemplate(r)
      [] r.template_type = "box" -> BoxTemplate(r)
      [] r.template_type = "table" -> TableTemplate(r)
      [] r.template_type = "cabinet" -> CabinetTemplate(r)
      [] r.template_type = "workbench" -> WorkbenchTemplate(r)
      [] r.template_type = "desk" -> DeskTemplate(r)
      [] r.template_type = "cutting_board" -> CuttingBoardTemplate(r)
      [] r.template_type = "tray" -> TrayTemplate(r)
      [] r.template_type = "picture_frame" -> PictureFrameTemplate(r)
      [] r.template_type = "shelf_bracket" -> ShelfBracketTemplate(r)

\* template.generate(): the instance after the call and the TemplateResult
Generate(s) ==
    CASE s.template_name = "bookshelf" -> bookshelf_generate(s)
      [] s.template_name = "box" -> box_generate(s)
      [] s.template_name = "table" -> table_generate(s)
      [] s.template_name = "cabinet" -> cabinet_generate(s)
      [] s.template_name = "workbench" -> workbench_generate(s)
      [] s.template_name = "desk" -> desk_generate(s)
      [] s.template_name = "cutting_board" -> cutting_board_generate(s)
      [] s.template_name = "tray" -> tray_generate(s)
      [] s.template_name = "picture_frame" -> picture_frame_generate(s)
      [] s.template_name = "shelf_bracket" -> shelf_bracket_generate(s)

NoSelf == [template_name |-> "none"]
NotParsed == [ok |-> FALSE, text |-> "", input |-> None, expected |-> "", args |-> <<>>]
NoRequest == [template_type |-> <<>>]
NoOutcome == [kind |-> "none"]
NoResult == [success |-> FALSE]

\* the variables of the stock-descriptor parser at rest
ParseIdle == lumber = <<>> /\ parsed = NotParsed

\* the variables of the template layer at rest
TplIdle ==
    /\ pc = "off" /\ req = NoRequest /\ self = NoSelf /\ results = <<>>
    /\ raised = NotParsed

\* the variables of build_project and the connection at rest
BuildIdle ==
    /\ bp_pc = "off" /\ bp_req = NoRequest /\ bp_result = NoResult
    /\ bp_template = NoSelf /\ sock = "none"
    /\ attempt = 0 /\ sent = 0 /\ handed = 0 /\ calls = 0 /\ outcome = NoOutcome

\* the variables of the interleaved generate() calls at rest
ParIdle ==
    /\ p_req = <<>> /\ p_inst = <<>> /\ p_pc = <<>> /\ p_local = <<>>
    /\ p_out = <<>>

\* SketchupConnection.sock is None
NoSock == 0

\* the variables of the send_command calls at rest
ConnIdle ==
    /\ c_pc = "off" /\ c_id = 0 /\ c_attempt = 0 /\ c_sent = 0
    /\ c_sock = NoSock /\ c_open = {} /\ c_wire = <<>> /\ c_outcome = NoOutcome

Init ==
    /\ pc = "new"
    /\ req \in Requests
    /\ self = NoSelf
    /\ results = <<>>
    /\ raised = NotParsed
    /\ ParseIdle
    /\ BuildIdle
    /\ ParIdle
    /\ ConnIdle

\* the constructor returns an instance
ConstructOk ==
    /\ pc = "new"
    /\ Construct(req).ok
    /\ self' = Construct(req).self
    /\ pc' = "ready"
    /\ UNCHANGED <<req, results, raised, parseVars, buildVars, parVars, connVars>>

\* the constructor raises the ValueError of _parse_lumber
ConstructRaises ==
    /\ pc = "new"
    /\ ~Construct(req).ok
    /\ raised' = Construct(req).error
    /\ pc' = "raised"
    /\ UNCHANGED <<req, self, results, parseVars, buildVars, parVars, connVars>>

\* one generate() call on the instance
CallGenerate ==
    /\ pc = "ready"
    /\ Len(results) < MaxCalls
    /\ LET g == Generate(self)
       IN  /\ self' = g.self
           /\ results' = Append(results, g.result)
    /\ UNCHANGED <<pc, req, raised, parseVars, buildVars, parVars, connVars>>

Next == ConstructOk \/ ConstructRaises \/ CallGenerate

Spec == Init /\ [][Next]_vars

---------------------------------------------------------------------------
(* Properties of the TemplateResults *)

\* every result generate() has returned so far satisfies P
AllResults(P(_)) == \A i \in 1..Len(results) : P(results[i])

\* the sum of the cut list's quantities
PieceCount(cut_list) ==
    SumSeq([i \in 1..Len(cut_list) |-> cut_list[i].quantity])

\* the interval a face edge at a, extended by len, covers
Lo(a, len) == Min(a, a + len)
Hi(a, len) == Max(a, a + len)

\* two boards share interior volume
Overlap(p, q) ==
    /\ Max(Lo(p.x, p.width), Lo(q.x, q.width)) < Min(Hi(p.x, p.width), Hi(q.x, q.width))
    /\ Max(Lo(p.y, p.depth), Lo(q.y, q.depth)) < Min(Hi(p.y, p.depth), Hi(q.y, q.depth))
    /\ Max(Lo(p.z, p.height), Lo(q.z, q.height))
         < Min(Hi(p.z, p.height), Hi(q.z, q.height))

\* a triple in ascending order
Sort3(a, b, c) == <<Min(a, Min(b, c)), a + b + c - Min(a, Min(b, c)) - Max(a, Max(b, c)),
                    Max(a, Max(b, c))>>

\* a placement and a cut-list entry have the same three dimensions, in some order
SameDims(b, c) == Sort3(b.width, b.height, b.depth) = Sort3(c.width, c.height, c.length)

\* C1: in a successful result the script is non-empty and the cut list's
\* quantities add up to the number of boards the script places
C1_Result(r) ==
    r.success => /\ r.ruby_code # <<>>
                 /\ PieceCount(r.cut_list) = Len(Boards(r.ruby_code))

\* C1 (as stated): every successful result of every variant has a non-empty
\* script and a cut list whose quantities sum to the number of board placements
C1_PieceCountEqualsPlacements == AllResults(C1_Result)

\* the instance is the shelving unit of the scenario, at height h mm
C2_Unit(h) ==
    /\ pc = "ready"
    /\ self.template_name = "bookshelf"
    /\ self.width = mm(600) /\ self.height = mm(h) /\ self.depth = mm(300)
    /\ self.shelves = 3
    /\ self.lumber_width = mm(90) /\ self.lumber_thickness = mm(19)

\* a failure about the height, carrying neither script nor cut list
C2_HeightFailure(r) ==
    /\ ~r.success
    /\ r.error.text = "Height is too small for shelves"
    /\ r.ruby_code = <<>>
    /\ r.cut_list = <<>>

\* C2 (amended): the 600 x 300 unit with 3 shelves in 90x19 stock fails with
\* the height error, and no script or cut list, at height 95 (3*19 + 2*19),
\* the largest height that leaves no free height
C2_ShortBookshelfFails == C2_Unit(95) => AllResults(C2_HeightFailure)

\* C2 witness: generate() has answered for the unit at height 95
C2_Witness == C2_Unit(95) /\ Len(results) >= 1

\* C2 (as stated): the same unit at height 100 fails with the height error
C2_FailsAtHeight100 == C2_Unit(100) => AllResults(C2_HeightFailure)

C3_Result(r) ==
    r.success =>
        LET b == Boards(r.ruby_code)
        IN  \A i \in 1..Len(b) : \A j \in 1..Len(b) : i < j => ~Overlap(b[i], b[j])

\* C3 (as stated): no two boards of a successful result share interior volume
C3_BoardsDisjoint == AllResults(C3_Result)

C4_Result(r) ==
    r.success =>
        LET b == Boards(r.ruby_code)
        IN  \A i \in 1..Len(b) : b[i].width > 0 /\ b[i].depth > 0 /\ b[i].height > 0

\* C4 (as stated): every board of a successful result has strictly positive
\* width, depth and height
C4_PositiveExtents == AllResults(C4_Result)

C5_Result(r) ==
    r.success =>
        \A i \in 1..Len(r.cut_list) :
            /\ r.cut_list[i].width > 0 /\ r.cut_list[i].height > 0
            /\ r.cut_list[i].length > 0 /\ r.cut_list[i].quantity >= 1

\* C5 (as stated): every LumberPiece of a successful result has positive
\* width, height and length and a quantity of at least 1
C5_PositivePieces == AllResults(C5_Result)

C6_Result(r) ==
    /\ r.success => r.ruby_code # <<>> /\ r.error = EmptyStr
    /\ ~r.success => r.error # EmptyStr /\ r.error.text # ""
                     /\ r.ruby_code = <<>> /\ r.cut_list = <<>>

\* C6: every result populates exactly one side: success with a non-empty
\* script and an empty error, or failure with a non-empty error, an empty
\* script and an empty cut list
C6_ExactlyOneSide == AllResults(C6_Result)

\* C6 witness: a failure has been returned
C6_Witness == Len(results) >= 1 /\ ~results[1].success

C7_Result(r) ==
    r.success =>
        LET b == Boards(r.ruby_code)
            c == r.cut_list
        IN  /\ \A i \in 1..Len(b) :
                 Cardinality({k \in 1..Len(c) : SameDims(b[i], c[k])}) = 1
            /\ \A k \in 1..Len(c) :
                 c[k].quantity = Cardinality({i \in 1..Len(b) : SameDims(b[i], c[k])})

\* C7 (as stated): every board corresponds to exactly one cut-list entry of
\* the same three dimensions, and each entry's quantity is the number of
\* boards that correspond to it
C7_PlacementsMatchCutList == AllResults(C7_Result)

\* C10: the results of successive generate() calls on one instance are
\* identical: success flag, cut list, and the script's board and marker
\* sequences
C10_Idempotent ==
    \A i \in 1..Len(results) : \A j \in 1..Len(results) :
        /\ results[i].success = results[j].success
        /\ results[i].cut_list = results[j].cut_list
        /\ Boards(results[i].ruby_code) = Boards(results[j].ruby_code)
        /\ Markers(results[i].ruby_code) = Markers(results[j].ruby_code)

\* C10 witness: two successful calls whose second marker pass read the
\* geometry fields the first call wrote
C10_Witness ==
    /\ Len(results) >= 2
    /\ results[2].success
    /\ Markers(results[2].ruby_code) # <<>>

---------------------------------------------------------------------------
(* The stock-descriptor parser on its own: _parse_lumber on every short     *)
(* descriptor over a small alphabet                                         *)

\* bound on the length of the descriptors drawn
MaxLen == 4

Alphabet == {"0", "1", "9", "x", "X", " ", "a", "-"}

Descriptors == UNION {[1..n -> Alphabet] : n \in 0..MaxLen}

InitParse ==
    /\ lumber \in Descriptors
    /\ parsed = NotParsed
    /\ TplIdle
    /\ BuildIdle
    /\ ParIdle
    /\ ConnIdle

\* _parse_lumber returns (width, thickness)
ParseReturns ==
    /\ parsed = NotParsed
    /\ _parse_lumber(lumber).ok
    /\ parsed' = _parse_lumber(lumber)
    /\ UNCHANGED <<lumber, tplVars, buildVars, parVars, connVars>>

\* _parse_lumber raises a ValueError
ParseRaises ==
    /\ parsed = NotParsed
    /\ ~_parse_lumber(lumber).ok
    /\ parsed' = _parse_lumber(lumber)
    /\ UNCHANGED <<lumber, tplVars, buildVars, parVars, connVars>>

NextParse == ParseReturns \/ ParseRaises

SpecParse == InitParse /\ [][NextParse]_vars

\* the descriptor without its leading and trailing blanks
RECURSIVE LStrip(_)
LStrip(s) == IF s # <<>> /\ Head(s) = " " THEN LStrip(Tail(s)) ELSE s
RECURSIVE RStrip(_)
RStrip(s) ==
    IF s # <<>> /\ s[Len(s)] = " " THEN RStrip(SubSeq(s, 1, Len(s) - 1)) ELSE s
Strip(s) == RStrip(LStrip(s))

\* the descriptor reads W x T or W X T with W, T > 0, blanks around it allowed:
\* the positions of such a separator
WxT(l) ==
    LET st == Strip(l)
    IN  {k \in 1..Len(st) :
            /\ st[k] \in {"x", "X"}
            /\ AllDigits(SubSeq(st, 1, k - 1))
            /\ AllDigits(SubSeq(st, k + 1, Len(st)))
            /\ DigitsVal(SubSeq(st, 1, k - 1), 0) > 0
            /\ DigitsVal(SubSeq(st, k + 1, Len(st)), 0) > 0}

\* the descriptor does not split into exactly two positive numeric parts
NotTwoPositiveParts(l) ==
    LET parts == Split(ReplaceX(Lower(l)))
    IN  \/ Len(parts) # 2
        \/ \E i \in 1..Len(parts) : ~FloatOk(parts[i]) \/ FloatVal(parts[i]) <= 0

\* the error names the offending descriptor and the expected format
NamesInputAndFormat(e) ==
    /\ ~e.ok
    /\ e.input = Some(lumber)
    /\ e.expected = "WIDTHxTHICKNESS"

\* C9 (as stated): a descriptor WxT with W, T > 0 parses to exactly (W, T);
\* every descriptor that does not split into two positive numeric parts
\* fails with an error naming the descriptor and the WIDTHxTHICKNESS format
C9_ParseContract ==
    parsed # NotParsed =>
        /\ \A k \in WxT(lumber) :
             /\ parsed.ok
             /\ parsed.width = DigitsVal(SubSeq(Strip(lumber), 1, k - 1), 0)
             /\ parsed.thickness =
                    DigitsVal(SubSeq(Strip(lumber), k + 1, Len(Strip(lumber))), 0)
        /\ NotTwoPositiveParts(lumber) => NamesInputAndFormat(parsed)

---------------------------------------------------------------------------
(* tools/build_project.py and connection.py: build_project generates the    *)
(* script and hands it to send_command; the Executor and the network answer *)
(* each socket operation as they please                                     *)

\* bound on the build_project calls of one run
MaxBuilds == 2

\* the TEMPLATES registry in its order: each key with the template_name of the
\* class it holds
TEMPLATES ==
    << <<<<"b", "o", "o", "k", "s", "h", "e", "l", "f">>, "bookshelf">>,
       <<<<"b", "o", "x">>, "box">>,
       <<<<"t", "a", "b", "l", "e">>, "table">>,
       <<<<"c", "a", "b", "i", "n", "e", "t">>, "cabinet">>,
       <<<<"w", "o", "r", "k", "b", "e", "n", "c", "h">>, "workbench">>,
       <<<<"d", "e", "s", "k">>, "desk">>,
       <<<<"c", "u", "t", "t", "i", "n", "g", "_", "b", "o", "a", "r", "d">>, "cutting_board">>,
       <<<<"p", "i", "c", "t", "u", "r", "e", "_", "f", "r", "a", "m", "e">>, "picture_frame">>,
       <<<<"s", "h", "e", "l", "f", "_", "b", "r", "a", "c", "k", "e", "t">>, "shelf_bracket">>,
       <<<<"t", "r", "a", "y">>, "tray">> >>

\* TEMPLATES.keys()
TEMPLATES_keys == [i \in 1..Len(TEMPLATES) |-> TEMPLATES[i][1]]

\* TEMPLATES[key]
TEMPLATES_get(key) ==
    TEMPLATES[CHOOSE i \in 1..Len(TEMPLATES) : TEMPLATES[i][1] = key][2]

\* send_command's max_retries
max_retries == 2

\* a string in capitals, and with its first letter in capitals
Upper(s) ==
    [i \in 1..Len(s) |->
        IF \E k \in 1..Len(LowerCase) : LowerCase[k] = s[i]
        THEN UpperCase[CHOOSE k \in 1..Len(LowerCase) : LowerCase[k] = s[i]]
        ELSE s[i]]
Capitalize(s) == [i \in 1..Len(s) |-> IF i = 1 THEN Upper(s)[1] ELSE s[i]]

\* the template_type arguments drawn: every registered name in three casings,
\* the empty string, and names that are not registered
TemplateTypes ==
    UNION {{TEMPLATES_keys[i], Upper(TEMPLATES_keys[i]), Capitalize(TEMPLATES_keys[i])} :
              i \in 1..Len(TEMPLATES)}
    \cup {<<>>, <<"c", "h", "a", "i", "r">>, <<" ", "b", "o", "x">>}

\* build_project's arguments: every template type with and without a height
\* and stock that fail, and the table with its presets in the options mapping
BuildRequests ==
    [template_type : TemplateTypes,
     width : {None}, height : {None, Some(95)}, depth : {None},
     lumber : {S_90x19, S_abc}, joinery : {None}, material : {"pine"},
     region : {"australia"}, options : {<<>>}]
    \cup
    [template_type : {<<"t", "a", "b", "l", "e">>, <<"T", "a", "b", "l", "e">>},
     width : {None, Some(700)}, height : {None, Some(600)}, depth : {None, Some(650)},
     lumber : {S_90x45}, joinery : {None}, material : {"pine"},
     region : {"australia"},
     options : {<<>>} \cup [variant : {"dining", "coffee", "end"}]]

\* the kwargs build_project passes to the template class: lumber, material and
\* region always, the dimensions and joinery when given, then the options
BuildKwargs(r) ==
    [template_type |-> TEMPLATES_get(Lower(r.template_type)),
     width |-> r.width, height |-> r.height, depth |-> r.depth,
     lumber |-> Some(r.lumber), joinery |-> r.joinery,
     material |-> Some(r.material), region |-> r.region, options |-> r.options]

\* build_project returns json.dumps of a failure
BuildFailure(error, ruby_code, hint) ==
    [kind |-> "return", success |-> FALSE, error |-> error, ruby_code |-> ruby_code,
     cut_list |-> <<>>, hint |-> hint]

\* build_project returns json.dumps of the success
BuildSuccess(text, cut_list, template_type, template) ==
    [kind |-> "return", success |-> TRUE, error |-> EmptyStr, ruby_code |-> <<>>,
     cut_list |-> cut_list, hint |-> FALSE, result |-> text,
     template |-> template_type,
     dimensions |-> [width |-> template.width, height |-> template.height,
                     depth |-> template.depth]]

\* build_project lets an exception out (except Exception: raise)
BuildRaises(exc, error) == [kind |-> "raise", exc |-> exc, error |-> error]

InitBuild ==
    /\ bp_pc = "idle"
    /\ bp_req = NoRequest
    /\ bp_result = NoResult
    /\ bp_template = NoSelf
    /\ sock \in {"none", "open"}
    /\ attempt = 0
    /\ sent = 0
    /\ handed = 0
    /\ calls = 0
    /\ outcome = NoOutcome
    /\ TplIdle
    /\ ParseIdle
    /\ ParIdle
    /\ ConnIdle

\* a build_project call ends
Ends(o) ==
    /\ outcome' = o
    /\ bp_pc' = "idle"

\* the caller calls build_project with arguments r
BuildCall ==
    /\ bp_pc = "idle"
    /\ calls < MaxBuilds
    /\ calls' = calls + 1
    /\ \E r \in BuildRequests : bp_req' = r
    /\ bp_result' = NoResult
    /\ bp_template' = NoSelf
    /\ attempt' = 0
    /\ sent' = 0
    /\ handed' = 0
    /\ outcome' = NoOutcome
    /\ bp_pc' = "called"
    /\ UNCHANGED <<sock, tplVars, parseVars, parVars, connVars>>

\* a registry test that compares the type as given, without lower(): the
\* variant the case-insensitive lookup is checked against
KnownTemplateExact(r) ==
    /\ r.template_type # <<>>
    /\ \E i \in 1..Len(TEMPLATES) : TEMPLATES_keys[i] = r.template_type

\* template_type.lower() is a key of TEMPLATES
KnownTemplate(r) ==
    /\ r.template_type # <<>>
    /\ \E i \in 1..Len(TEMPLATES) : TEMPLATES_keys[i] = Lower(r.template_type)

\* build_project: the template type is empty or not in TEMPLATES
BuildUnknown ==
    /\ bp_pc = "called"
    /\ ~KnownTemplate(bp_req)
    /\ Ends(BuildFailure(Message("Unknown template type. Available",
                                 <<bp_req.template_type, TEMPLATES_keys>>),
                         <<>>, FALSE))
    /\ UNCHANGED <<bp_req, bp_result, bp_template, sock, attempt, sent, handed, calls, tplVars, parseVars, parVars, connVars>>

\* build_project: the template class raises ValueError, caught and returned
BuildInvalid ==
    /\ bp_pc = "called"
    /\ KnownTemplate(bp_req)
    /\ \E c \in {Construct(BuildKwargs(bp_req))} :
          /\ ~c.ok
          /\ Ends(BuildFailure(Message(c.error.text,
                                       <<c.error.input, c.error.expected, c.error.args>>),
                               <<>>, FALSE))
    /\ UNCHANGED <<bp_req, bp_result, bp_template, sock, attempt, sent, handed, calls, tplVars, parseVars, parVars, connVars>>

\* build_project going on to send_command although generate() failed: the
\* variant the guard before the hand-over is checked against
BuildInfeasibleSends ==
    /\ bp_pc = "called"
    /\ KnownTemplate(bp_req)
    /\ \E c \in {Construct(BuildKwargs(bp_req))} :
          /\ c.ok
          /\ \E g \in {Generate(c.self)} :
                /\ ~g.result.success
                /\ bp_template' = g.self
                /\ bp_result' = g.result
    /\ bp_pc' = "connect"
    /\ UNCHANGED <<bp_req, sock, attempt, sent, handed, calls, outcome, tplVars, parseVars, parVars, connVars>>

\* build_project: generate() fails, its error is returned
BuildInfeasible ==
    /\ bp_pc = "called"
    /\ KnownTemplate(bp_req)
    /\ \E c \in {Construct(BuildKwargs(bp_req))} :
          /\ c.ok
          /\ \E g \in {Generate(c.self)} :
                /\ ~g.result.success
                /\ bp_template' = g.self
                /\ bp_result' = g.result
                /\ Ends(BuildFailure(g.result.error, <<>>, FALSE))
    /\ UNCHANGED <<bp_req, sock, attempt, sent, handed, calls, tplVars, parseVars, parVars, connVars>>

\* build_project: generate() succeeds; send_command is entered
BuildGenerated ==
    /\ bp_pc = "called"
    /\ KnownTemplate(bp_req)
    /\ \E c \in {Construct(BuildKwargs(bp_req))} :
          /\ c.ok
          /\ \E g \in {Generate(c.self)} :
                /\ g.result.success
                /\ bp_template' = g.self
                /\ bp_result' = g.result
    /\ bp_pc' = "connect"
    /\ UNCHANGED <<bp_req, sock, attempt, sent, handed, calls, outcome, tplVars, parseVars, parVars, connVars>>

\* connect(): the socket is there and the empty test send passes
ConnectAlive ==
    /\ bp_pc = "connect"
    /\ sock = "open"
    /\ bp_pc' = "send"
    /\ UNCHANGED <<bp_req, bp_result, bp_template, sock, attempt, sent, handed, calls, outcome, tplVars,
                   parseVars, parVars, connVars>>

\* connect(): no socket, or the test send fails and disconnect() drops it; a
\* new socket connects
ConnectFresh ==
    /\ bp_pc = "connect"
    /\ sock' = "open"
    /\ bp_pc' = "send"
    /\ UNCHANGED <<bp_req, bp_result, bp_template, attempt, sent, handed, calls, outcome, tplVars, parseVars, parVars, connVars>>

\* connect() returns False: send_command raises ConnectionError, which
\* build_project returns as a failure with a hint
ConnectFails ==
    /\ bp_pc = "connect"
    /\ sock' = "none"
    /\ Ends(BuildFailure(Message("Could not connect to SketchUp", <<>>), <<>>, TRUE))
    /\ UNCHANGED <<bp_req, bp_result, bp_template, attempt, sent, handed, calls, tplVars, parseVars, parVars, connVars>>

\* sendall succeeds
SendOk ==
    /\ bp_pc = "send"
    /\ sent' = sent + 1
    /\ handed' = handed + 1
    /\ bp_pc' = "recv"
    /\ UNCHANGED <<bp_req, bp_result, bp_template, sock, attempt, calls, outcome, tplVars, parseVars, parVars, connVars>>

\* sendall raises a timeout or connection error before the last attempt:
\* disconnect(), connect() succeeds, the loop goes on
SendFailsReconnects ==
    /\ bp_pc = "send"
    /\ attempt < max_retries
    /\ sent' = sent + 1
    /\ attempt' = attempt + 1
    /\ sock' = "open"
    /\ UNCHANGED <<handed, bp_pc, bp_req, bp_result, bp_template, calls, outcome, tplVars, parseVars, parVars, connVars>>

\* sendall raises before the last attempt and connect() fails: the loop is
\* left and ConnectionError raised, which build_project returns as a failure
SendFailsNoReconnect ==
    /\ bp_pc = "send"
    /\ attempt < max_retries
    /\ sent' = sent + 1
    /\ sock' = "none"
    /\ Ends(BuildFailure(Message("Failed to reconnect to SketchUp after connection loss",
                                 <<>>), <<>>, TRUE))
    /\ UNCHANGED <<handed, bp_req, bp_result, bp_template, attempt, calls, tplVars, parseVars, parVars, connVars>>

\* sendall raises on the last attempt: sock is set to None and a plain
\* Exception raised, which build_project re-raises
SendFailsLast ==
    /\ bp_pc = "send"
    /\ attempt = max_retries
    /\ sent' = sent + 1
    /\ sock' = "none"
    /\ Ends(BuildRaises("Exception",
                        Message("Connection lost after attempts", <<max_retries + 1>>)))
    /\ UNCHANGED <<handed, bp_req, bp_result, bp_template, attempt, calls, tplVars, parseVars, parVars, connVars>>

\* parse_tool_response on the result of a reply without "error"
parse_tool_response(reply) ==
    IF reply = "no_content" THEN <<FALSE, "No response from SketchUp">>
    ELSE <<reply # "is_error", "text">>

\* a complete JSON reply without "error" arrives: build_project returns the
\* success, or the failure the Executor reported with the script attached
RecvResult ==
    /\ bp_pc = "recv"
    /\ \E reply \in {"content", "is_error", "no_content"} :
         LET parsed_reply == parse_tool_response(reply)
         IN  IF parsed_reply[1]
             THEN Ends(BuildSuccess(parsed_reply[2], bp_result.cut_list,
                                    bp_req.template_type, bp_template))
             ELSE Ends(BuildFailure(Message("SketchUp error", <<parsed_reply[2]>>),
                                    bp_result.ruby_code, FALSE))
    /\ UNCHANGED <<bp_req, bp_result, bp_template, sock, attempt, sent, handed, calls, tplVars, parseVars, parVars, connVars>>

\* a complete JSON reply carrying "error" arrives: send_command raises a plain
\* Exception, which build_project re-raises
RecvErrorReply ==
    /\ bp_pc = "recv"
    /\ Ends(BuildRaises("Exception", Message("SketchUp error", <<"message">>)))
    /\ UNCHANGED <<bp_req, bp_result, bp_template, sock, attempt, sent, handed, calls, tplVars, parseVars, parVars, connVars>>

\* _receive_full_response raises a plain Exception: the peer closed before any
\* data, nothing came within the timeout, the data is no complete JSON, or the
\* connection failed while receiving; build_project re-raises it
RecvFails ==
    /\ bp_pc = "recv"
    /\ \E text \in {"Connection closed before receiving data", "No data received",
                    "Incomplete JSON response", "Connection error"} :
         Ends(BuildRaises("Exception", Message(text, <<>>)))
    /\ UNCHANGED <<bp_req, bp_result, bp_template, sock, attempt, sent, handed, calls, tplVars, parseVars, parVars, connVars>>

NextBuild ==
    \/ BuildCall \/ BuildUnknown \/ BuildInvalid \/ BuildInfeasible \/ BuildGenerated
    \/ ConnectAlive \/ ConnectFresh \/ ConnectFails
    \/ SendOk \/ SendFailsReconnects \/ SendFailsNoReconnect \/ SendFailsLast
    \/ RecvResult \/ RecvErrorReply \/ RecvFails

SpecBuild == InitBuild /\ [][NextBuild]_vars

\* C8 (as stated): every build_project call that fails returns a structured
\* result with success=false and a non-empty error; no error of the Executor
\* or of the connection is raised to the caller
C8_FailuresAreReturned ==
    /\ outcome.kind # "raise"
    /\ (outcome.kind = "return" /\ ~outcome.success) =>
           (outcome.error # EmptyStr /\ outcome.error.text # "")

---------------------------------------------------------------------------
(* Properties of the markers, of the grouping of the cut list and of the     *)
(* table                                                                     *)

\* the variants that declare no marker set
MarkerlessKinds == {"cabinet", "workbench", "desk", "cutting_board", "tray"}

\* C11: with show_joints false no result's script holds a marker, whatever the
\* joinery and the options; the variants without a marker set emit none even
\* with show_joints true
C11_MarkersSuppressed ==
    \A i \in 1..Len(results) :
        (~self.show_joints \/ self.template_name \in MarkerlessKinds)
            => Markers(results[i].ruby_code) = <<>>

\* C11 witness: a table built with a joinery of the caller's and show_joints
\* false, its boards placed
C11_Witness ==
    /\ Len(results) >= 1
    /\ results[1].success
    /\ self.template_name = "table"
    /\ self.joinery = "dovetail"
    /\ self.has_aprons
    /\ ~self.show_joints
    /\ Boards(results[1].ruby_code) # <<>>

\* the boards of a shelving unit that sit in the sides: top, bottom, shelves
Panels(bs) == {i \in 1..Len(bs) : bs[i].name[1] \in {"Top", "Bottom", "Shelf"}}

\* the markers on the left side's inner face at board b's height, and those on
\* the right side's
LeftMarkersAt(ms, b) ==
    {j \in 1..Len(ms) : ms[j].z = b.z /\ ms[j].x + ms[j].width = b.x}
RightMarkersAt(ms, b) ==
    {j \in 1..Len(ms) : ms[j].z = b.z /\ ms[j].x = b.x + b.width}

C12_Result(r) ==
    (self.template_name = "bookshelf" /\ r.success /\ self.show_joints) =>
        LET ms == Markers(r.ruby_code)
            bs == Boards(r.ruby_code)
        IN  /\ Len(ms) = 2 * (self.shelves + 2)
            /\ Cardinality(Panels(bs)) = self.shelves + 2
            /\ \A i \in Panels(bs) :
                  /\ Cardinality(LeftMarkersAt(ms, bs[i])) = 1
                  /\ Cardinality(RightMarkersAt(ms, bs[i])) = 1

\* C12: with show_joints true a successful shelving unit of N shelves has
\* 2 * (N + 2) markers, one on the left and one on the right side at the z of
\* each shelf, of the top and of the bottom
C12_ShelfMarkers == AllResults(C12_Result)

\* C12 witness: a shelving unit of three shelves generated with its markers
C12_Witness ==
    /\ Len(results) >= 1
    /\ results[1].success
    /\ self.template_name = "bookshelf"
    /\ self.show_joints
    /\ self.shelves = 3
    /\ Len(Markers(results[1].ruby_code)) = 10

---------------------------------------------------------------------------
(* Properties of build_project: the hand-over of the script, the template    *)
(* registry and the table presets                                            *)

\* the call in progress resolved its template, constructed it and generate()
\* returned success
Generated ==
    /\ KnownTemplate(bp_req)
    /\ bp_template # NoSelf
    /\ bp_result.success

\* C13: per build_project call the script goes through to the Executor at most
\* once; send_command is entered, and sendall called, only after the template
\* was resolved and constructed and generate() returned success
C13_SentOnceAfterSuccess ==
    /\ handed <= 1
    /\ bp_pc \in {"connect", "send", "recv"} => Generated
    /\ sent > 0 => Generated

\* C13 witness: two sendall calls failed, the loop reconnected, and the third
\* handed the script over
C13_Witness ==
    /\ bp_pc = "recv"
    /\ sent = max_retries + 1
    /\ handed = 1

\* t is key k in some casing: letter for letter k's small or capital letter
CasingOf(t, k) ==
    /\ Len(t) = Len(k)
    /\ \A i \in 1..Len(k) : t[i] = k[i] \/ t[i] = Upper(k)[i]

\* the call that ended failed as an unknown template type, the error listing
\* the registry's ten names, and constructed nothing
UnknownTypeFailure ==
    /\ outcome.kind = "return"
    /\ ~outcome.success
    /\ outcome.error.text = "Unknown template type. Available"
    /\ outcome.error.args[1] = bp_req.template_type
    /\ Len(outcome.error.args[2]) = 10
    /\ \A i \in 1..Len(TEMPLATES) :
          \E j \in 1..10 : outcome.error.args[2][j] = TEMPLATES[i][1]
    /\ bp_template = NoSelf
    /\ bp_result = NoResult
    /\ sent = 0

\* C14: a template_type that is a registered name in any casing selects that
\* name's template; every other value, the empty one included, ends the call
\* with success false and an error listing the ten registered names, no
\* template constructed
C14_CaseInsensitiveLookup ==
    (bp_pc = "idle" /\ calls > 0) =>
        IF \E i \in 1..Len(TEMPLATES) : CasingOf(bp_req.template_type, TEMPLATES[i][1])
        THEN /\ ~UnknownTypeFailure
             /\ bp_template # NoSelf =>
                   \E i \in 1..Len(TEMPLATES) :
                       /\ CasingOf(bp_req.template_type, TEMPLATES[i][1])
                       /\ bp_template.template_name = TEMPLATES[i][2]
        ELSE UnknownTypeFailure

\* C14 witness: build_project("TRAY") ended with the tray built
C14_Witness ==
    /\ bp_pc = "idle"
    /\ bp_req.template_type = <<"T", "R", "A", "Y">>
    /\ bp_template # NoSelf
    /\ bp_template.template_name = "tray"
    /\ outcome.kind = "return"
    /\ outcome.success

---------------------------------------------------------------------------
(* Properties of the template layer: region, grouping, the table             *)

\* two TemplateResults agree in what the caller sees of the project
SameProject(r1, r2) ==
    /\ r1.success = r2.success
    /\ Boards(r1.ruby_code) = Boards(r2.ruby_code)
    /\ Markers(r1.ruby_code) = Markers(r2.ruby_code)
    /\ r1.cut_list = r2.cut_list

\* C15: a run whose inputs differ from this one's only in region constructs
\* when this one does, and its generate() returns the same success flag, the
\* same board placements and markers and the same cut list
C15_RegionInformational ==
    \A g \in Regions :
        \E twin \in {Construct([req EXCEPT !.region = g])} :
            /\ pc = "raised" => ~twin.ok
            /\ pc = "ready" => twin.ok
            /\ Len(results) >= 1 =>
                  SameProject(results[1], Generate(twin.self).result)

\* C15 witness: a project generated for a region other than the default one
C15_Witness ==
    /\ Len(results) >= 1
    /\ results[1].success
    /\ req.region = "north_america"
    /\ self.region = "north_america"
    /\ Boards(results[1].ruby_code) # <<>>

\* the repeated pieces of each kind: the board's name in the script, the
\* entry's name in the cut list, the count the instance holds for it
RepeatedPieces(s) ==
    CASE s.template_name = "bookshelf" -> {<<"Shelf", "Shelf", s.shelves>>}
      [] s.template_name = "cabinet" ->
            {<<"Shelf", "Shelf", s.shelf_count>>}
            \cup (IF s.has_doors THEN {<<"Door", "Door", s.door_count>>} ELSE {})
      [] s.template_name = "table" -> {<<"Leg", "Leg", 4>>}
      [] s.template_name = "workbench" -> {<<"Leg", "Leg", s.leg_count>>}
      [] s.template_name = "tray" ->
            IF s.has_dividers THEN {<<"Divider", "Divider", s.divider_count>>}
            ELSE {}
      [] s.template_name = "shelf_bracket" ->
            CASE s.bracket_style = "triangle" ->
                    {<<"Vertical", "Vertical (Wall Mount)", s.bracket_count>>,
                     <<"Horizontal", "Horizontal (Support)", s.bracket_count>>,
                     <<"Diagonal", "Diagonal (Brace)", s.bracket_count>>}
              [] s.bracket_style = "L_bracket" ->
                    {<<"Vertical", "Vertical (Wall Mount)", s.bracket_count>>,
                     <<"Horizontal", "Horizontal (Support)", s.bracket_count>>}
              [] OTHER -> {<<"Corbel", "Corbel Bracket", s.bracket_count>>}
      [] OTHER -> {}

\* the boards of the script that carry the name
BoardsNamed(ruby_code, name) ==
    SelectSeq(Boards(ruby_code), LAMBDA p : p.name[1] = name)

\* the entries of the cut list that carry the name
EntriesNamed(cut_list, name) == SelectSeq(cut_list, LAMBDA e : e.name = name)

C17_Result(r) ==
    r.success =>
        /\ \A i, j \in 1..Len(r.cut_list) :
              r.cut_list[i].name = r.cut_list[j].name => i = j
        /\ \A f \in RepeatedPieces(self) :
              f[3] > 0 =>
                 /\ Len(BoardsNamed(r.ruby_code, f[1])) = f[3]
                 /\ Len(EntriesNamed(r.cut_list, f[2])) = 1
                 /\ EntriesNamed(r.cut_list, f[2])[1].quantity = f[3]
        /\ (self.template_name = "bookshelf" /\ self.shelves = 3) =>
              [i \in 1..Len(r.cut_list) |->
                  <<r.cut_list[i].name, r.cut_list[i].quantity>>]
              = << <<"Side Panel", 2>>, <<"Shelf", 3>>, <<"Top Panel", 1>>,
                   <<"Bottom Panel", 1>> >>

\* C17: in every successful cut list the entry names are pairwise distinct
\* and every repeated piece (shelves, legs, doors, dividers, the pieces of the
\* brackets) is one entry whose quantity is the number of such boards; the
\* bookshelf with 3 shelves lists side panel 2, shelf 3, top 1, bottom 1
C17_RepeatedPiecesGrouped == AllResults(C17_Result)

\* C17 witness: a bookshelf with 3 shelves has been generated
C17_Witness ==
    /\ Len(results) >= 1
    /\ results[1].success
    /\ self.template_name = "bookshelf"
    /\ self.shelves = 3
    /\ Len(BoardsNamed(results[1].ruby_code, "Shelf")) = 3
    /\ Len(results[1].cut_list) = 4

\* the defaults the presets are documented with: width, height, depth
PresetDims(variant) ==
    CASE variant = "dining" -> [width |-> 1800, height |-> 750, depth |-> 900]
      [] variant = "coffee" -> [width |-> 1200, height |-> 450, depth |-> 600]
      [] variant = "end" -> [width |-> 500, height |-> 500, depth |-> 500]

\* the dimensions a table request resolves to: what the caller supplies, the
\* preset's default for what is omitted (no preset given: dining)
ResolvedDims(r) ==
    LET d == PresetDims(Opt(r.options, "variant", "dining"))
    IN  [width |-> mm(Arg(r.width, d.width)),
         height |-> mm(Arg(r.height, d.height)),
         depth |-> mm(Arg(r.depth, d.depth))]

\* the instance's dimensions
DimsOf(s) == [width |-> s.width, height |-> s.height, depth |-> s.depth]

IsTableRequest(r) == r # NoRequest /\ Lower(r.template_type) = <<"t", "a", "b", "l", "e">>

\* C18: a table constructed from the keyword arguments alone, and the table
\* build_project constructs with the preset in its options mapping, have the
\* supplied dimensions unchanged and the preset's default for each omitted
\* one; the geometry (tabletop extents and its height above the floor) and
\* the dimensions build_project reports are derived from the resolved values
C18_TablePresetDefaults ==
    IsTableRequest(bp_req) =>
        /\ \E c \in {TableTemplate([bp_req EXCEPT !.template_type = "table",
                                                  !.lumber = None,
                                                  !.material = None])} :
              c.ok /\ DimsOf(c.self) = ResolvedDims(bp_req)
        /\ bp_template # NoSelf =>
              /\ DimsOf(bp_template) = ResolvedDims(bp_req)
              /\ \A i \in 1..Len(bp_result.ruby_code) :
                    bp_result.ruby_code[i].name = <<"Tabletop", 0>> =>
                       /\ bp_result.ruby_code[i].width = ResolvedDims(bp_req).width
                       /\ bp_result.ruby_code[i].depth = ResolvedDims(bp_req).depth
                       /\ bp_result.ruby_code[i].z + bp_result.ruby_code[i].height
                             = ResolvedDims(bp_req).height
        /\ (outcome # NoOutcome /\ outcome.kind = "return" /\ outcome.success) =>
              outcome.dimensions = ResolvedDims(bp_req)

\* C18 witness: build_project has built a coffee table whose preset came in
\* the options mapping, the width omitted and the height supplied
C18_Witness ==
    /\ IsTableRequest(bp_req)
    /\ bp_req.options # <<>>
    /\ bp_req.options.variant = "coffee"
    /\ bp_req.width = None
    /\ bp_req.height = Some(600)
    /\ bp_req.depth = None
    /\ bp_template # NoSelf
    /\ bp_template.width = mm(1200)
    /\ bp_template.height = mm(600)
    /\ outcome # NoOutcome
    /\ outcome.kind = "return"
    /\ outcome.success

\* the boards of the script with exactly this name
BoardsCalled(ruby_code, name) ==
    SelectSeq(Boards(ruby_code), LAMBDA p : p.name = <<name, 0>>)

TableSides == {"Front", "Back", "Left", "Right"}

C19_Result(r) ==
    (r.success /\ self.template_name = "table" /\ self.has_aprons
        /\ self.has_stretchers) =>
        \A side \in TableSides :
            \E sts \in {BoardsCalled(r.ruby_code, side \o " Stretcher")} :
            \E aps \in {BoardsCalled(r.ruby_code, side \o " Apron")} :
                /\ Len(sts) = 1 /\ Len(aps) = 1
                /\ sts[1].z >= 0
                /\ sts[1].z + sts[1].height <= aps[1].z

\* C19: in every table generate() accepts with aprons and stretchers, each
\* stretcher starts at or above the floor and ends at or below the bottom of
\* the apron of its side
C19_StretchersBelowAprons == AllResults(C19_Result)

\* a table generate() accepts whose stretchers reach into the aprons
C19_StretcherInApron ==
    /\ Len(results) >= 1
    /\ results[1].success
    /\ self.template_name = "table" /\ self.has_aprons /\ self.has_stretchers
    /\ self.height = mm(200)
    /\ \E st \in {BoardsCalled(results[1].ruby_code, "Front Stretcher")[1]} :
       \E ap \in {BoardsCalled(results[1].ruby_code, "Front Apron")[1]} :
          st.z >= 0 /\ st.z + st.height > ap.z

\* a table generate() accepts whose stretchers start below the floor
C19_StretcherBelowFloor ==
    /\ Len(results) >= 1
    /\ results[1].success
    /\ self.template_name = "table" /\ self.has_aprons /\ self.has_stretchers
    /\ self.height = mm(150)
    /\ BoardsCalled(results[1].ruby_code, "Front Stretcher")[1].z < 0

\* the markers on leg i for the rails of the kind ("Apron" or "Stretcher")
LegMarkers(ruby_code, i, kind) ==
    SelectSeq(Markers(ruby_code),
        LAMBDA m : m.name[2] = i
                   /\ m.name[1] \in {"Leg Front " \o kind, "Leg Back " \o kind,
                                     "Leg Side " \o kind})

C20_Result(r) ==
    (r.success /\ self.template_name = "table" /\ self.show_joints) =>
        /\ Len(Markers(r.ruby_code))
              = (IF self.has_aprons THEN 8 ELSE 0)
                + (IF self.has_stretchers THEN 8 ELSE 0)
        /\ \A i \in 1..4 : \A kind \in {"Apron", "Stretcher"} :
              Len(LegMarkers(r.ruby_code, i, kind))
                 = IF BoardsCalled(r.ruby_code, "Front " \o kind) # <<>>
                   THEN 2 ELSE 0

\* C20: with markers enabled a generated table carries, on each of its 4
\* legs, one marker for each of the 2 aprons and each of the 2 stretchers that
\* meet the leg: 8 with aprons only, 8 with stretchers only, 16 with both, 0
\* with neither
C20_TableMarkerCounts == AllResults(C20_Result)

\* a generated table with markers enabled whose stretchers are in the script
\* and carry no marker
C20_StretchersUnmarked ==
    /\ Len(results) >= 1
    /\ results[1].success
    /\ self.template_name = "table" /\ self.show_joints /\ self.has_stretchers
    /\ Len(BoardsCalled(results[1].ruby_code, "Front Stretcher")) = 1
    /\ \A i \in 1..4 : LegMarkers(results[1].ruby_code, i, "Stretcher") = <<>>

\* the horizontal members of a carcass from the floor up: bottom, shelves, top
Members(ruby_code) ==
    BoardsCalled(ruby_code, "Bottom") \o BoardsNamed(ruby_code, "Shelf")
    \o BoardsCalled(ruby_code, "Top")

\* the clear gap above member k: from its top to the underside of the next
GapAbove(ms, k) == ms[k + 1].z - (ms[k].z + ms[k].height)

C21_Result(r) ==
    (r.success /\ self.template_name = "cabinet" /\ self.shelf_count >= 1) =>
        \E ms \in {Members(r.ruby_code)} :
            /\ Len(ms) = self.shelf_count + 2
            /\ \A k \in 1..(Len(ms) - 1) :
                  GapAbove(ms, k) > 0 /\ GapAbove(ms, k) = GapAbove(ms, 1)

\* C21: in every cabinet generate() accepts with at least one shelf, the
\* clear gaps between consecutive members (bottom, shelf 1..N, top) are all
\* equal and strictly positive
C21_CabinetShelvesEvenlySpaced == AllResults(C21_Result)

\* a cabinet generate() accepts whose topmost shelf reaches into the top panel
C21_ShelfInTopPanel ==
    /\ Len(results) >= 1
    /\ results[1].success
    /\ self.template_name = "cabinet" /\ self.shelf_count >= 1
    /\ \E ms \in {Members(results[1].ruby_code)} :
          GapAbove(ms, Len(ms) - 1) < 0

C22_Result(r) ==
    (r.success /\ self.template_name = "desk" /\ self.has_drawer
        /\ self.drawer_side = "both") =>
        \E l \in {BoardsCalled(r.ruby_code, "Left Drawer")} :
        \E d \in {BoardsCalled(r.ruby_code, "Right Drawer")} :
        \E lp \in {BoardsCalled(r.ruby_code, "Left Leg Panel")} :
        \E rp \in {BoardsCalled(r.ruby_code, "Right Leg Panel")} :
            /\ Len(l) = 1 /\ Len(d) = 1 /\ Len(lp) = 1 /\ Len(rp) = 1
            /\ ~Overlap(l[1], d[1])
            /\ \A b \in {l[1], d[1]} :
                  /\ lp[1].x + lp[1].width < b.x
                  /\ b.x + b.width < rp[1].x

\* C22: in every desk generate() accepts with drawers on both sides, the two
\* drawer boxes share no volume and each lies strictly between the leg panels
C22_DrawersDisjoint == AllResults(C22_Result)

\* a desk generate() accepts, 600 wide, whose two drawer boxes share volume
C22_DrawersCollide ==
    /\ Len(results) >= 1
    /\ results[1].success
    /\ self.template_name = "desk" /\ self.width = mm(600)
    /\ self.has_drawer /\ self.drawer_side = "both"
    /\ Overlap(BoardsCalled(results[1].ruby_code, "Left Drawer")[1],
               BoardsCalled(results[1].ruby_code, "Right Drawer")[1])

C23_Result(r) ==
    (r.success /\ self.template_name = "bookshelf") =>
        \E ms \in {Members(r.ruby_code)} :
        \E sides \in {BoardsCalled(r.ruby_code, "Left Side")
                      \o BoardsCalled(r.ruby_code, "Right Side")} :
            /\ Len(sides) = 2
            /\ \A k \in 1..2 : sides[k].z = 0 /\ sides[k].height = self.height
            /\ Len(ms) = self.shelves + 2
            /\ \A k \in 1..Len(ms) :
                  /\ ms[k].x = self.lumber_thickness
                  /\ ms[k].x + ms[k].width = self.width - self.lumber_thickness
                  /\ ms[k].height = self.lumber_thickness
                  /\ ms[k].z >= 0
                  /\ ms[k].z + ms[k].height <= self.height
            /\ \A k \in 2..(Len(ms) - 1) : ms[k].name = <<"Shelf", k - 1>>
            /\ \A k \in 1..(Len(ms) - 1) :
                  /\ ms[k].z < ms[k + 1].z
                  /\ GapAbove(ms, k) * (self.shelves + 1)
                        = self.height - (self.shelves + 2) * self.lumber_thickness

\* C23: in every bookshelf generate() accepts the sides span z 0..height,
\* every horizontal member spans x thickness..width - thickness, the members
\* lie in the order bottom, shelf 1..N, top within 0..height, and each of the
\* N+1 clear gaps is (height - (N+2)*thickness)/(N+1)
C23_ShelvingLayout == AllResults(C23_Result)

\* C23 witness: a bookshelf of 3 shelves whose 4 gaps are open
C23_Witness ==
    /\ Len(results) >= 1
    /\ results[1].success
    /\ self.template_name = "bookshelf"
    /\ self.shelves = 3
    /\ \E ms \in {Members(results[1].ruby_code)} :
          Len(ms) = 5 /\ \A k \in 1..4 : GapAbove(ms, k) > 0

LongRailKinds == {"Front Apron", "Back Apron", "Front Stretcher", "Back Stretcher"}
LongRailEntries == {"Long Apron", "Long Rail", "Long Stretcher"}

\* the leg count the caller's arguments ask for
RequestedLegs(r) ==
    IF Opt(r.options, "leg_count", 4) = 6 \/ Arg(r.width, 1800) > 2000
    THEN 6 ELSE 4

C24_Result(r) ==
    (r.success /\ self.template_name = "workbench") =>
        /\ self.leg_count = RequestedLegs(req)
        /\ Len(BoardsNamed(r.ruby_code, "Leg")) = self.leg_count
        /\ \E e \in 1..Len(r.cut_list) : r.cut_list[e].name \in LongRailEntries
        /\ self.leg_count = 6 =>
              \A kind \in LongRailKinds :
                  \E spans \in {BoardsNamed(r.ruby_code, kind)} :
                      /\ Len(spans) = 2
                      /\ spans[1].width = spans[2].width
                      /\ \A e \in 1..Len(r.cut_list) :
                            r.cut_list[e].name \in LongRailEntries =>
                               r.cut_list[e].length = spans[1].width

\* C24: a workbench has 6 legs exactly when 6 are requested or the width is
\* over 2000 and 4 otherwise, as many leg boards as that; with 6 legs every
\* long apron and long stretcher is two spans a side, of one length, the
\* length of the long rails in the cut list
C24_WorkbenchLegLayout ==
    /\ (pc = "ready" /\ self.template_name = "workbench") =>
          self.leg_count = RequestedLegs(req)
    /\ AllResults(C24_Result)

\* C24 witness: a workbench 2400 wide, 4 legs requested, generated with 6
C24_Witness ==
    /\ Len(results) >= 1
    /\ results[1].success
    /\ self.template_name = "workbench"
    /\ req.width = Some(2400)
    /\ req.options # <<>>
    /\ req.options.leg_count = 4
    /\ Len(BoardsNamed(results[1].ruby_code, "Leg")) = 6
    /\ Len(BoardsNamed(results[1].ruby_code, "Front Stretcher")) = 2

\* the board lies within the instance's width x depth x height
InEnvelope(b, s) ==
    /\ 0 <= b.x /\ b.x + b.width <= s.width
    /\ 0 <= b.y /\ b.y + b.depth <= s.depth
    /\ 0 <= b.z /\ b.z + b.height <= s.height

C25_Result(r) ==
    (r.success /\ self.template_name = "tray") =>
        /\ self.lumber_thickness + self.wall_height <= self.height
        /\ \A k \in 1..Len(Boards(r.ruby_code)) :
              InEnvelope(Boards(r.ruby_code)[k], self)

\* C25: in every tray generate() accepts, the bottom's thickness plus the
\* wall height is at most the requested height, and every board lies within
\* 0..width, 0..depth, 0..height
C25_TrayWithinEnvelope == AllResults(C25_Result)

\* the default tray, generated, whose walls end above its height
C25_WallsAboveHeight ==
    /\ Len(results) >= 1
    /\ results[1].success
    /\ self.template_name = "tray"
    /\ req.height = None /\ req.width = None /\ req.options = <<>>
    /\ \E w \in {BoardsCalled(results[1].ruby_code, "Front Wall")[1]} :
          w.z + w.height > self.height

C26_Result(r) ==
    r.success =>
        \A k \in 1..Len(Boards(r.ruby_code)) : Boards(r.ruby_code)[k].z >= 0

\* C26: in every successful result of every template, every board starts at
\* or above the floor
C26_NoBoardBelowFloor == AllResults(C26_Result)

\* a workbench generate() accepts whose lower stretchers start below the floor
C26_WorkbenchStretcherBelowFloor ==
    /\ Len(results) >= 1
    /\ results[1].success
    /\ self.template_name = "workbench"
    /\ self.height = mm(250)
    /\ \E sts \in {BoardsNamed(results[1].ruby_code, "Front Stretcher")} :
          sts # <<>> /\ sts[1].z < 0

\* the height-validation failures of the bookshelf, the table, the workbench
HeightMessages ==
    {"Height is too small for shelves", "Table height too small for aprons",
     "Workbench height too small"}

\* the minimum height a height-validation message states (its last value)
StatedMinimum(error) == error.args[Len(error.args)]

\* generate() accepts the instance at another height
AcceptedAt(s, h) == Generate([s EXCEPT !.height = h]).result.success

C27_Result(r) ==
    (~r.success /\ r.error.text \in HeightMessages) =>
        \E m \in {StatedMinimum(r.error)} :
            /\ AcceptedAt(self, m)
            /\ AcceptedAt(self, m + mm(1))
            /\ ~AcceptedAt(self, m - mm(1))

\* C27: when the bookshelf, the table or the workbench rejects a height, the
\* minimum its message states is the threshold: the same instance is accepted
\* at that height and above it and rejected below it
C27_StatedMinimumIsThreshold == AllResults(C27_Result)

\* a rejected height whose message states a minimum above heights that
\* generate() accepts
C27_AcceptedBelowStatedMinimum ==
    /\ Len(results) >= 1
    /\ ~results[1].success
    /\ results[1].error.text \in HeightMessages
    /\ AcceptedAt(self, StatedMinimum(results[1].error) - mm(1))
    /\ self.height < StatedMinimum(results[1].error) - mm(1)

---------------------------------------------------------------------------
(* generate() on independent Template instances, the calls interleaved      *)

\* the callers, each holding a Template instance of its own
Callers == {"c1", "c2"}

\* keyword arguments of one caller: the kind, a height and the options
ParReq(kind, height, o) ==
    [template_type |-> kind, width |-> None, height |-> height, depth |-> None,
     lumber |-> None, joinery |-> None, material |-> None,
     region |-> "australia", options |-> o]

\* what the callers ask for: pairs of one class with different geometry, a
\* class without markers, a request generate() rejects
ParRequests ==
    { ParReq("box", None, [has_lid |-> TRUE, show_joints |-> TRUE]),
      ParReq("box", None, [has_lid |-> FALSE, show_joints |-> TRUE]),
      ParReq("box", Some(20), [has_lid |-> TRUE, show_joints |-> TRUE]),
      ParReq("bookshelf", None, [shelves |-> 1, show_joints |-> TRUE]),
      ParReq("bookshelf", None, [shelves |-> 3, show_joints |-> TRUE]),
      ParReq("table", None, [variant |-> "dining", has_aprons |-> TRUE,
                             has_stretchers |-> TRUE, show_joints |-> TRUE]),
      ParReq("table", None, [variant |-> "coffee", has_aprons |-> TRUE,
                             has_stretchers |-> FALSE, show_joints |-> TRUE]),
      ParReq("picture_frame", None, [mat_width |-> 0, show_joints |-> TRUE]),
      ParReq("picture_frame", None, [mat_width |-> 20, show_joints |-> TRUE]),
      ParReq("shelf_bracket", None,
             [bracket_style |-> "triangle", bracket_count |-> 1,
              has_shelf |-> TRUE, show_joints |-> TRUE]),
      ParReq("shelf_bracket", Some(99),
             [bracket_style |-> "L_bracket", bracket_count |-> 2,
              has_shelf |-> TRUE, show_joints |-> TRUE]),
      ParReq("tray", None, [has_dividers |-> TRUE, divider_count |-> 1,
                            show_joints |-> TRUE]) }

\* the fields generate() assigns on self for _get_joint_markers(), in the
\* order of the assignments (the list bookshelf builds by append is one field)
GeometryFields(template_name) ==
    CASE template_name = "bookshelf" -> <<"_shelf_positions">>
      [] template_name = "box" ->
            <<"_box_height", "_wall_thickness", "_bottom_thickness",
              "_interior_depth">>
      [] template_name = "table" ->
            <<"_leg_size", "_leg_height", "_apron_height", "_apron_thickness",
              "_leg_x_positions", "_leg_y_positions", "_apron_z",
              "_stretcher_z">>
      [] template_name = "picture_frame" ->
            <<"_inner_width", "_inner_height", "_frame_thickness">>
      [] template_name = "shelf_bracket" ->
            <<"_board_thickness", "_board_width", "_vertical_length",
              "_bracket_positions">>
      [] OTHER -> <<>>

\* self._get_joint_markers(): the subclass's override, [] in the base class
_get_joint_markers(s) ==
    CASE s.template_name = "bookshelf" -> bookshelf_get_joint_markers(s)
      [] s.template_name = "box" -> box_get_joint_markers(s)
      [] s.template_name = "table" -> table_get_joint_markers(s)
      [] s.template_name = "picture_frame" -> picture_frame_get_joint_markers(s)
      [] s.template_name = "shelf_bracket" -> shelf_bracket_get_joint_markers(s)
      [] OTHER -> <<>>

\* an assignment that lands on the class, which the instances of one class
\* share, instead of on the instance
StoreFieldOnClass(store, c, f, v) ==
    [d \in DOMAIN store |->
        IF store[d].template_name = store[c].template_name
        THEN [store[d] EXCEPT ![f] = v] ELSE store[d]]

\* self.<f> = v on the instance of caller c
StoreField(store, c, f, v) ==
    [store EXCEPT ![c] = [store[c] EXCEPT ![f] = v]]

NoLocal == [written |-> 0, overlapped |-> FALSE]

InitPar ==
    /\ p_req \in [Callers -> ParRequests]
    /\ p_inst = [c \in Callers |-> Construct(p_req[c]).self]
    /\ p_pc = [c \in Callers |-> "ready"]
    /\ p_local = [c \in Callers |-> NoLocal]
    /\ p_out = [c \in Callers |-> NoResult]
    /\ TplIdle
    /\ ParseIdle
    /\ BuildIdle
    /\ ConnIdle

\* generate() on c's instance returns at a validation, before any assignment
ParRejected(c) ==
    /\ p_pc[c] = "ready"
    /\ \E g \in {Generate(p_inst[c])} :
          /\ ~g.result.success
          /\ p_out' = [p_out EXCEPT ![c] = g.result]
    /\ p_pc' = [p_pc EXCEPT ![c] = "done"]
    /\ UNCHANGED <<p_req, p_inst, p_local, tplVars, parseVars, buildVars, connVars>>

\* generate() on c's instance derives its geometry from the instance's
\* dimensions into local variables
ParDerive(c) ==
    /\ p_pc[c] = "ready"
    /\ \E g \in {Generate(p_inst[c])} :
          /\ g.result.success
          /\ p_local' = [p_local EXCEPT ![c] =
                [self |-> g.self, result |-> g.result, written |-> 0,
                 overlapped |-> FALSE]]
    /\ p_pc' = [p_pc EXCEPT ![c] = "store"]
    /\ UNCHANGED <<p_req, p_inst, p_out, tplVars, parseVars, buildVars, connVars>>

\* the next assignment of a geometry field on c's instance
ParStore(c) ==
    /\ p_pc[c] = "store"
    /\ p_local[c].written < Len(GeometryFields(p_inst[c].template_name))
    /\ LET f == GeometryFields(p_inst[c].template_name)[p_local[c].written + 1]
       IN  p_inst' = StoreField(p_inst, c, f, p_local[c].self[f])
    /\ p_local' = [p_local EXCEPT ![c].written = @ + 1]
    /\ UNCHANGED <<p_req, p_pc, p_out, tplVars, parseVars, buildVars, connVars>>

\* the marker pass reads the fields of c's instance, and generate() returns;
\* overlapped notes that another call had assigned fields and not returned
ParMarkers(c) ==
    /\ p_pc[c] = "store"
    /\ p_local[c].written = Len(GeometryFields(p_inst[c].template_name))
    /\ \E ms \in {_generate_markers_ruby(p_inst[c], _get_joint_markers(p_inst[c]))} :
          LET code == p_local[c].result.ruby_code
          IN  p_out' = [p_out EXCEPT ![c] =
                 [p_local[c].result EXCEPT !.ruby_code =
                     <<code[1]>> \o Boards(code) \o ms \o <<code[Len(code)]>>]]
    /\ p_local' = [p_local EXCEPT ![c].overlapped =
          \E d \in Callers \ {c} : p_pc[d] = "store" /\ p_local[d].written > 0]
    /\ p_pc' = [p_pc EXCEPT ![c] = "done"]
    /\ UNCHANGED <<p_req, p_inst, tplVars, parseVars, buildVars, connVars>>

NextPar ==
    \E c \in Callers :
        ParRejected(c) \/ ParDerive(c) \/ ParStore(c) \/ ParMarkers(c)

SpecPar == InitPar /\ [][NextPar]_vars

\* C16: however the calls on the independent instances interleave, a call
\* that has returned has returned what generate() returns on that instance
\* run alone, and an instance no call has started on has the fields its
\* constructor gave it
C16_InterleavedCallsIndependent ==
    \A c \in Callers :
        /\ p_pc[c] = "done" =>
              p_out[c] = Generate(Construct(p_req[c]).self).result
        /\ p_pc[c] = "ready" => p_inst[c] = Construct(p_req[c]).self

\* C16 witness: a call returned markers after its marker pass ran while a
\* call on another instance of the same class, with other geometry, was
\* between its field assignments and its own return
C16_Witness ==
    \E c \in Callers : \E d \in Callers \ {c} :
        /\ p_pc[c] = "done"
        /\ p_local[c].overlapped
        /\ p_out[c].success
        /\ Markers(p_out[c].ruby_code) # <<>>
        /\ p_inst[d].template_name = p_inst[c].template_name
        /\ p_req[d] # p_req[c]
        /\ p_pc[d] = "done"
        /\ Markers(p_out[d].ruby_code) # Markers(p_out[c].ruby_code)

---------------------------------------------------------------------------
(* connection.py: send_command calls on the shared SketchupConnection       *)

\* the send_command calls made on the connection
MaxSends == 2

\* a socket.socket() is created: the next socket
NewSock == Len(c_wire) + 1

\* sock.close(): what the socket held is gone
Dropped(wire, k) == IF k = NoSock THEN wire ELSE [wire EXCEPT ![k] = <<>>]

\* send_command raises
Raises(exc, text) == [kind |-> "raise", exc |-> exc, error |-> text]

\* send_command returns response.get("result"): the reply read from the
\* socket, which the Executor wrote for the request reply_to
Returns(reply_to) == [kind |-> "return", reply_to |-> reply_to]

InitConn ==
    /\ c_pc = "idle"
    /\ c_id = 0
    /\ c_attempt = 0
    /\ c_sent = 0
    /\ c_sock = NoSock
    /\ c_open = {}
    /\ c_wire = <<>>
    /\ c_outcome = NoOutcome
    /\ TplIdle
    /\ ParseIdle
    /\ BuildIdle
    /\ ParIdle

\* a send_command call ends
Done(o) ==
    /\ c_outcome' = o
    /\ c_pc' = "idle"

\* a tool calls send_command on the global connection
SendCommand ==
    /\ c_pc = "idle"
    /\ c_id < MaxSends
    /\ c_id' = c_id + 1
    /\ c_attempt' = 0
    /\ c_sent' = 0
    /\ c_outcome' = NoOutcome
    /\ c_pc' = "connect"
    /\ UNCHANGED <<c_sock, c_open, c_wire, tplVars, parseVars, buildVars, parVars>>

\* connect(): sock is set and the empty test send passes
TestSendPasses ==
    /\ c_pc = "connect"
    /\ c_sock # NoSock
    /\ c_pc' = "send"
    /\ UNCHANGED <<c_id, c_attempt, c_sent, c_sock, c_open, c_wire, c_outcome, tplVars, parseVars, buildVars, parVars>>

\* connect(): sock is None, or the test send fails and disconnect() closes
\* the socket; a new socket connects
Connects ==
    /\ c_pc = "connect"
    /\ c_sock' = NewSock
    /\ c_open' = (c_open \ {c_sock}) \cup {NewSock}
    /\ c_wire' = Append(Dropped(c_wire, c_sock), <<>>)
    /\ c_pc' = "send"
    /\ UNCHANGED <<c_id, c_attempt, c_sent, c_outcome, tplVars, parseVars, buildVars, parVars>>

\* connect(): the new socket fails to connect, is closed, sock is None and
\* connect() returns False; send_command raises ConnectionError
ConnectRefused ==
    /\ c_pc = "connect"
    /\ c_sock' = NoSock
    /\ c_open' = (c_open \ {c_sock})
    /\ c_wire' = Append(Dropped(c_wire, c_sock), <<>>)
    /\ Done(Raises("ConnectionError", "Could not connect to SketchUp"))
    /\ UNCHANGED <<c_id, c_attempt, c_sent, tplVars, parseVars, buildVars, parVars>>

\* sendall goes through: the Executor will write its reply to this socket
SendAllOk ==
    /\ c_pc = "send"
    /\ c_sent' = c_sent + 1
    /\ c_wire' = [c_wire EXCEPT ![c_sock] = Append(@, c_id)]
    /\ c_pc' = "recv"
    /\ UNCHANGED <<c_id, c_attempt, c_sock, c_open, c_outcome, tplVars, parseVars, buildVars, parVars>>

\* sendall raises a timeout or connection error before the last attempt:
\* disconnect() closes the socket, connect() opens a new one, the loop goes on
SendAllFailsReconnects ==
    /\ c_pc = "send"
    /\ c_attempt < max_retries
    /\ c_sent' = c_sent + 1
    /\ c_attempt' = c_attempt + 1
    /\ c_sock' = NewSock
    /\ c_open' = (c_open \ {c_sock}) \cup {NewSock}
    /\ c_wire' = Append(Dropped(c_wire, c_sock), <<>>)
    /\ UNCHANGED <<c_pc, c_id, c_outcome, tplVars, parseVars, buildVars, parVars>>

\* sendall raises before the last attempt, disconnect() closes the socket and
\* connect() fails: the loop is left and ConnectionError raised
SendAllFailsNoReconnect ==
    /\ c_pc = "send"
    /\ c_attempt < max_retries
    /\ c_sent' = c_sent + 1
    /\ c_sock' = NoSock
    /\ c_open' = (c_open \ {c_sock})
    /\ c_wire' = Append(Dropped(c_wire, c_sock), <<>>)
    /\ Done(Raises("ConnectionError",
                   "Failed to reconnect to SketchUp after connection loss"))
    /\ UNCHANGED <<c_id, c_attempt, tplVars, parseVars, buildVars, parVars>>

\* a send_command that goes round once more after the last attempt: the
\* variant the limit on transmissions is checked against
SendAllFailsLastRetries ==
    /\ c_pc = "send"
    /\ c_attempt = max_retries
    /\ c_sent' = c_sent + 1
    /\ c_attempt' = c_attempt + 1
    /\ c_sock' = NewSock
    /\ c_open' = (c_open \ {c_sock}) \cup {NewSock}
    /\ c_wire' = Append(Dropped(c_wire, c_sock), <<>>)
    /\ UNCHANGED <<c_pc, c_id, c_outcome, tplVars, parseVars, buildVars, parVars>>

\* sendall raises on the last attempt: self.sock = None, without close(),
\* and a plain Exception is raised
SendAllFailsLast ==
    /\ c_pc = "send"
    /\ c_attempt = max_retries
    /\ c_sent' = c_sent + 1
    /\ c_sock' = NoSock
    /\ Done(Raises("Exception", "Connection lost after attempts"))
    /\ UNCHANGED <<c_id, c_attempt, c_open, c_wire, tplVars, parseVars, buildVars, parVars>>

\* _receive_full_response returns the first complete JSON on the socket, a
\* reply without "error": send_command returns its result
ReceivesResult ==
    /\ c_pc = "recv"
    /\ c_wire[c_sock] # <<>>
    /\ c_wire' = [c_wire EXCEPT ![c_sock] = Tail(@)]
    /\ Done(Returns(Head(c_wire[c_sock])))
    /\ UNCHANGED <<c_id, c_attempt, c_sent, c_sock, c_open, tplVars, parseVars, buildVars, parVars>>

\* the first complete JSON on the socket carries "error": send_command
\* raises a plain Exception
ReceivesErrorReply ==
    /\ c_pc = "recv"
    /\ c_wire[c_sock] # <<>>
    /\ c_wire' = [c_wire EXCEPT ![c_sock] = Tail(@)]
    /\ Done(Raises("Exception", "SketchUp error"))
    /\ UNCHANGED <<c_id, c_attempt, c_sent, c_sock, c_open, tplVars, parseVars, buildVars, parVars>>

\* nothing arrives within the timeout: _receive_full_response raises a plain
\* Exception, the socket stays as it is and the reply is still to come
ReceiveTimesOut ==
    /\ c_pc = "recv"
    /\ Done(Raises("Exception", "No data received"))
    /\ UNCHANGED <<c_id, c_attempt, c_sent, c_sock, c_open, c_wire, tplVars, parseVars, buildVars, parVars>>

\* the peer closes, the connection fails while receiving, or what arrived is
\* no complete JSON: a plain Exception, the socket stays in sock and some of
\* what was on it has been read
ReceiveFails ==
    /\ c_pc = "recv"
    /\ \E n \in 0..Len(c_wire[c_sock]) :
          c_wire' = [c_wire EXCEPT ![c_sock] = SubSeq(@, n + 1, Len(@))]
    /\ \E text \in {"Connection closed before receiving data",
                    "Incomplete JSON response", "Connection error"} :
          Done(Raises("Exception", text))
    /\ UNCHANGED <<c_id, c_attempt, c_sent, c_sock, c_open, tplVars, parseVars, buildVars, parVars>>

\* close_connection(): disconnect() closes the socket held, sock is None
CloseConnection ==
    /\ c_pc = "idle"
    /\ c_sock # NoSock
    /\ c_sock' = NoSock
    /\ c_open' = (c_open \ {c_sock})
    /\ c_wire' = Dropped(c_wire, c_sock)
    /\ UNCHANGED <<c_pc, c_id, c_attempt, c_sent, c_outcome, tplVars, parseVars, buildVars, parVars>>

\* the steps of a send_command call under way
CallStep ==
    \/ TestSendPasses \/ Connects \/ ConnectRefused
    \/ SendAllOk \/ SendAllFailsReconnects \/ SendAllFailsNoReconnect
    \/ SendAllFailsLast
    \/ ReceivesResult \/ ReceivesErrorReply \/ ReceiveTimesOut \/ ReceiveFails

NextConn == SendCommand \/ CloseConnection \/ CallStep

\* a call under way goes on: every blocking step of it returns or times out
SpecConn == InitConn /\ [][NextConn]_vars /\ WF_vars(CallStep)

---------------------------------------------------------------------------
(* Properties of send_command on the shared connection                      *)

\* C28: a result returned by send_command is the response to the request
\* that same call sent; a response that arrives late for an earlier request
\* is never returned as the result of a later request on the reused socket
C28_ResultAnswersOwnRequest ==
    c_outcome.kind = "return" => c_outcome.reply_to = c_id

\* a call returned the reply to the request of an earlier call, whose
\* receive had timed out
C28_LateReplyReturned ==
    /\ c_pc = "idle"
    /\ c_outcome.kind = "return"
    /\ c_outcome.reply_to < c_id

\* C29: whenever sock is reset to None or replaced by a new socket, the
\* socket it held before has been closed
C29_NoSocketLeaked ==
    [][(c_sock # NoSock /\ c_sock' # c_sock) => c_sock \notin c_open']_vars

\* a socket is open that the connection no longer holds
C29_SocketLeft ==
    /\ c_sock = NoSock
    /\ c_open # {}

====
